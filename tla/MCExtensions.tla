---------------------------- MODULE MCExtensions ----------------------------
(* Instances of Extensions for TLC.                                          *)
EXTENDS Extensions
Module(n) == [kind |-> "module", name |-> n, entry |-> FALSE, manifest |-> <<>>]
Package(n, m) == [kind |-> "package", name |-> n, entry |-> TRUE, manifest |-> m]
Hidden(n) == [kind |-> "hidden", name |-> n, entry |-> FALSE, manifest |-> <<>>]
MCNames == {"_a", "a", "b", "x"}
MCTools == {"bash", "extra"}
Plain == [project |-> <<>>, user |-> <<Hidden("_a"), Module("a"), Package("b", <<>>)>>,
          explicit |-> <<>>, trusted |-> FALSE, enabled |-> TRUE, broken |-> {}, raising |-> {},
          tools |-> [n \in MCNames |-> {"bash"}],
          on |-> [n \in MCNames |-> Lifecycle]]
MCLayouts == {
  Plain,
  [Plain EXCEPT !.raising = {"a"}, !.tools = [n \in MCNames |-> MCTools]],
  [Plain EXCEPT !.trusted = TRUE, !.project = <<Package("x", <<"b">>)>>, !.broken = {"a"},
                !.on = [n \in MCNames |-> {"session_start"}]],
  [Plain EXCEPT !.enabled = FALSE, !.explicit = <<Module("a")>>]}

\* Extensions with one or two hooks of a kind, some of them gone after a reload.
Hooked(n, calls, results) ==
  [name |-> n, handlers |-> [tool_call |-> calls, tool_result |-> results, input |-> 1, event |-> calls]]
MCShapes == {
  <<Hooked("a", 1, 0), Hooked("b", 2, 1)>>,
  <<Hooked("b", 2, 1)>>,
  <<Hooked("b", 1, 1), Hooked("a", 1, 1)>>}
=============================================================================
