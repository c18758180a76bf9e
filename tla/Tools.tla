-------------------------------- MODULE Tools --------------------------------
(***************************************************************************)
(* The tools: how a batch of calls is executed, and the built-in tools:    *)
(* the files a call reads and edits, the image it attaches and the command *)
(* it runs.  They meet in nothing the code shares (a file is read and      *)
(* written between two awaits), and a batch needs of a tool only that it   *)
(* returns or raises: so a behaviour is of one of them.                    *)
(***************************************************************************)
EXTENDS ToolBatch, CommandTool, FileTools

CONSTANT Parts   \* what a behaviour may be of

ASSUME PartsAssumption == Parts \subseteq {"batch", "command", "edit", "read", "image"}

VARIABLE part   \* what it is of

vars == <<batchVars, cmdVars, fileVars, imageVars, part>>

NoBatch == BatchInit /\ mode = [i \in Calls |-> "unknown"] /\ option = "parallel"
NoCommand == CmdIdle("none", [timeout |-> FALSE, token |-> FALSE])
NoImage == source = [kind |-> "other", bytes |-> 1, width |-> 1, height |-> 1] /\ image = source
           /\ vision = "unknown" /\ attempt = 0 /\ read = "omitted"
NoFiles == FilesInit({<<>>}, {<<0>>})

Init ==
  /\ part \in Parts
  /\ \/ part = "batch" /\ BatchInit /\ NoCommand /\ NoFiles /\ NoImage
     \/ part = "command" /\ NoBatch /\ CmdInit /\ NoFiles /\ NoImage
     \/ part = "edit" /\ NoBatch /\ NoCommand /\ FilesInit(Texts, {<<0>>}) /\ NoImage
     \/ part = "read" /\ NoBatch /\ NoCommand /\ FilesInit({<<>>}, Pages) /\ NoImage
     \/ part = "image" /\ NoBatch /\ NoCommand /\ NoFiles /\ ImageInit

Next ==
  \/ part = "batch" /\ BatchNext /\ UNCHANGED <<cmdVars, fileVars, imageVars, part>>
  \/ part = "command" /\ CmdNext /\ UNCHANGED <<batchVars, fileVars, imageVars, part>>
  \/ part = "edit" /\ EditNext /\ UNCHANGED <<batchVars, cmdVars, imageVars, part>>
  \/ part = "read" /\ ReadNext /\ UNCHANGED <<batchVars, cmdVars, imageVars, part>>
  \/ part = "image" /\ ImageNext /\ UNCHANGED <<batchVars, cmdVars, fileVars, part>>

\* The event loop runs its timers and wakes its tasks.
Spec == Init /\ [][Next]_vars /\ BatchFairness /\ CmdFairness
-----------------------------------------------------------------------------
\* What the model is given of a file or of a command's output is what it is said to be: the pages
\* of a text, read at the offsets that the hints name, cover it without a gap or a repeat; the end
\* of an output begins at the line that is named; and an image is attached within the limits of
\* the provider, an animation whole or not at all.
ReadIsWhole == PagesCover /\ TailIsShown /\ AttachmentFits
=============================================================================
