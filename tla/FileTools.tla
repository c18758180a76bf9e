----------------------------- MODULE FileTools -----------------------------
(***************************************************************************)
(* The read, write and edit tools (tools.py) on one file.  Text is a       *)
(* sequence of characters, of which the line ends and the byte order mark  *)
(* matter; for reading, a line is the number of its bytes.  Of an image    *)
(* that is read (image_processing.py): what is refused, what is attached   *)
(* as it is, and the attempts to encode it small enough; the codec is a    *)
(* size in bytes no one can foresee.                                       *)
(***************************************************************************)
EXTENDS Integers, FiniteSets, SequencesExt

CONSTANTS
  Chars,            \* the characters
  Texts,            \* what the file may hold at first
  Olds,             \* texts to replace
  News,             \* texts to put in their place
  MaxEdits,         \* bound: replacements of one call
  MaxText,          \* bound: characters of the file
  Pages,            \* files to read: sequences of line sizes
  MaxLines,         \* DEFAULT_MAX_OUTPUT_LINES
  MaxBytes,         \* DEFAULT_MAX_OUTPUT_BYTES
  MaxImageBytes,    \* DEFAULT_MAX_IMAGE_BYTES
  MaxSourceBytes,   \* DEFAULT_MAX_SOURCE_IMAGE_BYTES
  MaxDimension,     \* DEFAULT_MAX_IMAGE_DIMENSION
  MaxPixels,        \* DEFAULT_MAX_SOURCE_PIXELS
  MaxAttempts       \* MAX_RESIZE_ATTEMPTS

ASSUME FileAssumption ==
       /\ {"bom", "cr", "lf"} \subseteq Chars /\ Texts \cup Olds \cup News \subseteq Seq(Chars)
       /\ Pages \subseteq Seq(Nat)
       /\ {MaxEdits, MaxText, MaxLines, MaxBytes, MaxDimension} \subseteq Nat \ {0}
       /\ {MaxImageBytes, MaxSourceBytes, MaxPixels, MaxAttempts} \subseteq Nat

VARIABLES
  file,      \* the file that is edited
  pages,     \* the file that is read
  next,      \* the offset of the next read, 0 when no more was announced
  got,       \* the lines returned so far
  skipped,   \* lines only named, being too long
  source,    \* the file: kind, size in bytes, width, height
  vision,    \* ImageSupportState: what the model is known to support
  image,     \* the image being encoded
  attempt,   \* attempts made
  read       \* "reading", "encoding", "attached", "omitted"

fileVars == <<file, pages, next, got, skipped>>
imageVars == <<source, vision, image, attempt, read>>

---------------------------------------------------------------------------
(* Editing.  Path.read_text opens in text mode: every line end is "lf".    *)

ReadText(s) ==
  FlattenSeq([i \in DOMAIN s |->
    IF s[i] = "cr" THEN <<"lf">>
    ELSE IF s[i] = "lf" /\ i > 1 /\ s[i - 1] = "cr" THEN <<>> ELSE <<s[i]>>])
\* Path.write_text on POSIX adds nothing.
WriteText(s) == s

Normalized(s) == ReadText(s)

StartsAt(s, old, i) == i + Len(old) - 1 <= Len(s) /\ SubSeq(s, i, i + Len(old) - 1) = old

\* str.find, 0 for none.
Find(s, old, from) ==
  LET at == {i \in from .. Len(s) : StartsAt(s, old, i)} IN IF at = {} THEN 0 ELSE Min(at)

\* That _count_occurrences, which goes on behind what it found, finds one.
Once(s, old) ==
  LET first == Find(s, old, 1) IN first # 0 /\ Find(s, old, first + Len(old)) = 0

BOMOf(s) == IF s # <<>> /\ Head(s) = "bom" THEN <<"bom">> ELSE <<>>
\* detect_line_ending, restore_line_endings.
Ending(s) ==
  LET crlf == Find(s, <<"cr", "lf">>, 1)
      lf == Find(s, <<"lf">>, 1)
  IN IF crlf # 0 /\ lf # 0 /\ crlf < lf THEN <<"cr", "lf">> ELSE <<"lf">>
Restored(s, ending) ==
  FlattenSeq([i \in DOMAIN s |-> IF s[i] = "lf" THEN ending ELSE <<s[i]>>])

Span(s, e) == [from |-> Find(s, e.old, 1), to |-> Find(s, e.old, 1) + Len(e.old), new |-> e.new]
Overlap(a, b) == a.from < b.to /\ b.from < a.to

\* The checks of apply_edits_to_normalized_content; an error leaves the file.
Valid(s, edits) ==
  /\ \A i \in DOMAIN edits : edits[i].old # <<>> /\ Once(s, edits[i].old)
  /\ \A i, j \in DOMAIN edits : i < j => ~Overlap(Span(s, edits[i]), Span(s, edits[j]))

Starting(s, edits, p) == {i \in DOMAIN edits : Span(s, edits[i]).from = p}
Put(text, span) == SubSeq(text, 1, span.from - 1) \o span.new \o SubSeq(text, span.to, Len(text))

\* Seeded fault: the spans are replaced from the first on.
FirstToLast(s, k) == k
\* The spans are replaced from the last on, so that those before keep their place.
LastToFirst(s, k) == Len(s) + 1 - k
Replaced(s, edits) ==
  LET after[k \in 0 .. Len(s)] ==
        IF k = 0 THEN s
        ELSE LET here == Starting(s, edits, LastToFirst(s, k))
             IN IF here = {} THEN after[k - 1]
                ELSE Put(after[k - 1], Span(s, edits[CHOOSE i \in here : TRUE]))
  IN after[Len(s)]

\* The edit tool: read, edit, and write unless something is wrong.
Edit(edits) ==
  LET raw == ReadText(file)
      content == SubSeq(raw, Len(BOMOf(raw)) + 1, Len(raw))
      lf == Normalized(content)
      replacements == [i \in DOMAIN edits |->
                         [old |-> Normalized(edits[i].old), new |-> Normalized(edits[i].new)]]
      result == Replaced(lf, replacements)
  IN /\ Valid(lf, replacements) /\ result # lf /\ Len(result) < MaxText
     /\ file' = WriteText(BOMOf(raw) \o Restored(result, Ending(content)))
     /\ UNCHANGED <<pages, next, got, skipped>>

Write(content) == file' = WriteText(content) /\ UNCHANGED <<pages, next, got, skipped>>

---------------------------------------------------------------------------
(* Reading.  A file is split at its line ends, so that a final one leaves  *)
(* an empty last line.                                                     *)

Bytes(lines) ==
  LET sum[n \in 0 .. Len(lines)] == IF n = 0 THEN 0 ELSE sum[n - 1] + lines[n]
  IN sum[Len(lines)] + Max({0, Len(lines) - 1})
\* _split_lines_for_counting: the empty last line does not count.
Counted(lines) ==
  IF lines # <<>> /\ Last(lines) = 0 THEN Front(lines) ELSE lines

\* The loop of truncate_head adds lines while both limits allow.
Fits(lines, n) == n <= MaxLines /\ Bytes(SubSeq(lines, 1, n)) <= MaxBytes
HeadLines(lines) ==
  CHOOSE n \in 0 .. Len(lines) :
    (\A m \in 1 .. n : Fits(lines, m)) /\ (n = Len(lines) \/ ~Fits(lines, n + 1))

Whole(lines) == Len(Counted(lines)) <= MaxLines /\ Bytes(lines) <= MaxBytes

\* Seeded fault: the hint names the last line shown.
HintAtLast(first, shown) == first + shown - 1
\* Where the hint tells to go on.
Hint(first, shown) == first + shown

\* The read tool, from the offset of the last hint and with a limit or none (0).
Read(limit) ==
  LET last == IF limit = 0 THEN Len(pages) ELSE Min({next + limit - 1, Len(pages)})
      selected == SubSeq(pages, next, last)
      shown == IF Whole(selected) THEN Len(selected) ELSE HeadLines(Counted(selected))
      long == ~Whole(selected) /\ Counted(selected)[1] > MaxBytes
  IN /\ next \in 1 .. Len(pages)
     /\ IF long
          THEN /\ next' = next + 1 /\ skipped' = skipped \cup {next} /\ UNCHANGED got
          ELSE /\ got' = got \o SubSeq(selected, 1, shown)
               /\ next' = IF Whole(selected) /\ last = Len(pages) THEN 0 ELSE Hint(next, shown)
               /\ UNCHANGED skipped
     /\ UNCHANGED <<file, pages>>

\* truncate_tail, for the output of a command: lines are taken from the end while both limits
\* allow; a last line too long for any page is clipped.
Clipped(n) == Min({n, MaxBytes})
Nothing == [shown |-> 0, bytes |-> 0, partial |-> FALSE, full |-> FALSE]
TakeLine(n, t) ==
  LET more == n + Min({t.shown, 1})
      fits == t.shown < MaxLines /\ t.bytes + more <= MaxBytes
  IN IF t.full THEN t
     ELSE IF fits THEN [t EXCEPT !.shown = @ + 1, !.bytes = @ + more]
     ELSE IF t.shown = 0 THEN [shown |-> 1, bytes |-> Clipped(n), partial |-> TRUE, full |-> TRUE]
     ELSE [t EXCEPT !.full = TRUE]
OutputTail(lines) ==
  LET all == Counted(lines)
      taken[n \in 0 .. Len(all)] ==
        IF n = 0 THEN Nothing ELSE TakeLine(all[Len(all) + 1 - n], taken[n - 1])
  IN IF Whole(lines) THEN [Nothing EXCEPT !.shown = Len(all), !.bytes = Bytes(lines)]
     ELSE taken[Len(all)]

\* The number of the first line shown, as the tool names it under the output.
ShownFrom(lines) == Len(Counted(lines)) - OutputTail(lines).shown + 1

---------------------------------------------------------------------------
FilesInit(texts, files) ==
  /\ file \in texts /\ pages \in files
  /\ next = 1 /\ got = <<>> /\ skipped = {}

Replacements == UNION {[1 .. n -> [old : Olds, new : News]] : n \in 1 .. MaxEdits}
EditNext == (\E edits \in Replacements : Edit(edits)) \/ (\E content \in News : Write(content))
ReadNext == \E limit \in 0 .. MaxLines : Read(limit)

---------------------------------------------------------------------------
(* Images.                                                                 *)

\* What the magic bytes tell: "other" stands for the kinds named unsupported.
ImageKinds == {"static", "animated", "bmp", "other"}
Sources == [kind : ImageKinds, bytes : 1 .. MaxSourceBytes + 1,
            width : 1 .. 2 * MaxDimension, height : 1 .. 2 * MaxDimension]

ImageInit ==
  /\ source \in Sources /\ image = source /\ attempt = 0 /\ read = "reading"
  /\ vision \in {"unknown", "yes", "no"}

Omit == read' = "omitted" /\ UNCHANGED <<source, vision, image, attempt>>

\* requires_resize.
TooBig(i) == i.width > MaxDimension \/ i.height > MaxDimension \/ i.bytes > MaxImageBytes

\* _bounded_dimensions: one scale for both sides, and at least one pixel.
Bounded(i) ==
  LET side == Max({i.width, i.height})
      Scaled(n) == IF side <= MaxDimension THEN n ELSE Max({1, (n * MaxDimension) \div side})
  IN [i EXCEPT !.width = Scaled(@), !.height = Scaled(@)]

Refused ==
  \/ source.kind = "other" \/ source.bytes > MaxSourceBytes
  \/ vision = "no"
  \/ source.width * source.height > MaxPixels
  \/ source.kind = "animated" /\ TooBig(source)

\* process_image up to its loop.
ReadImage ==
  /\ read = "reading"
  /\ IF Refused THEN Omit
     ELSE IF source.kind # "bmp" /\ ~TooBig(source)
       THEN read' = "attached" /\ UNCHANGED <<source, vision, image, attempt>>
     ELSE read' = "encoding" /\ image' = Bounded(source) /\ UNCHANGED <<source, vision, attempt>>

\* One pass of the loop: encode, and if it is still too large make it smaller.
Shrunk(n) == Max({1, (n * 4) \div 5})
Encode ==
  /\ read = "encoding" /\ attempt < MaxAttempts
  /\ \E bytes \in 1 .. MaxImageBytes + 1 :
       LET smaller == [image EXCEPT !.width = Shrunk(@), !.height = Shrunk(@), !.bytes = bytes]
       IN IF bytes <= MaxImageBytes
            THEN /\ read' = "attached" /\ image' = [image EXCEPT !.kind = "static", !.bytes = bytes]
                 /\ UNCHANGED attempt
          ELSE IF smaller = [image EXCEPT !.bytes = bytes]
            THEN read' = "omitted" /\ UNCHANGED <<image, attempt>>
          ELSE image' = smaller /\ attempt' = attempt + 1 /\ UNCHANGED read
  /\ UNCHANGED <<source, vision>>
GiveUp == read = "encoding" /\ attempt = MaxAttempts /\ Omit

\* The user selects another model while the image is processed in a thread.
SelectModel ==
  /\ read = "encoding"
  /\ vision' \in {"yes", "no"} \ {vision}
  /\ UNCHANGED <<source, image, attempt, read>>

ImageNext == ReadImage \/ Encode \/ GiveUp \/ SelectModel

\* What an edit means, said without an order: a character that no replaced text
\* covers stays, and each replaced text becomes its replacement where it was.
Meant(s, edits) ==
  FlattenSeq([p \in DOMAIN s |->
    LET over == {i \in DOMAIN edits : p \in Span(s, edits[i]).from .. Span(s, edits[i]).to - 1}
        at == {i \in over : p = Span(s, edits[i]).from}
    IN IF over = {} THEN <<s[p]>>
       ELSE IF at = {} THEN <<>> ELSE edits[CHOOSE i \in at : TRUE].new])

\* "Each oldText is matched against the original file, not after earlier edits
\* are applied": whatever the lengths and the order of the replacements, what
\* apply_edits_to_normalized_content writes is what they mean together.
EditIsSimultaneous ==
  LET text == ReadText(file)
  IN \A edits \in Replacements : Valid(text, edits) => Replaced(text, edits) = Meant(text, edits)

\* The hints of successive reads lead through the whole file: what was returned
\* and what was named as too long are its lines up to the next offset, each once.
PagesCover ==
  LET upTo == IF next = 0 THEN Len(pages) ELSE next - 1
  IN got = FlattenSeq([i \in 1 .. upTo |-> IF i \in skipped THEN <<>> ELSE <<pages[i]>>])

\* The end of a command's output is shown from the line the tool names: as many whole lines as
\* the limits allow and no more, or the end of the last line if that alone is too long.
TailIsShown ==
  LET all == Counted(pages)
      from == ShownFrom(pages)
      part(k) == Bytes(SubSeq(all, k, Len(all)))
      fits(k) == Len(all) - k < MaxLines /\ part(k) <= MaxBytes
  IN ~Whole(pages) =>
       IF OutputTail(pages).partial THEN from = Len(all) /\ Last(all) > MaxBytes
       ELSE fits(from) /\ OutputTail(pages).bytes = part(from) /\ (from > 1 => ~fits(from - 1))

\* "The original file's dominant line ending is restored after replacement":
\* an edit does not change what ends the lines of a file.
LineEndingsRestored ==
  [][(\E edits \in Replacements : Edit(edits)) => Ending(file') = Ending(file)]_file

\* An image goes to the provider within both limits, in a format it takes, and
\* an animation whole or not at all, whatever the encoder makes of it.
AttachmentFits ==
  read = "attached" =>
    /\ image.bytes <= MaxImageBytes /\ image.width <= MaxDimension /\ image.height <= MaxDimension
    /\ image.kind # "bmp" /\ (source.kind = "animated" => image = source)
=============================================================================
