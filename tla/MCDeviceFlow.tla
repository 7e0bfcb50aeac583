--------------------------- MODULE MCDeviceFlow ---------------------------
(* Two calls, numbered, on a bench with one local and one remote board. *)
EXTENDS DeviceFlow, Sequences

CONSTANTS A   (* the device every caller expects *)

Ask(tool, place) ==
  [tool |-> tool, place |-> place, confirm |-> TRUE, known |-> TRUE, expect |-> A,
   writes |-> TRUE]

Remotes == CHOOSE h \in Hosts : TRUE

\* The pairs of calls: every path a tool takes beside one that disturbs it, a
\* script that only reads, and calls that the first gate ends.  A pair shares
\* its place, for calls of different places share nothing.
Pairs == {
  <<Ask("flash", Local), Ask("ila", Local)>>,
  <<Ask("jtag", Local), Ask("flash", Local)>>,
  <<Ask("jtag", Local), Ask("ila", Local)>>,
  <<Ask("flash", Local), [Ask("cdt", Local) EXCEPT !.confirm = FALSE]>>,
  <<[Ask("cdt", Local) EXCEPT !.writes = FALSE], [Ask("jtag", Local) EXCEPT !.known = FALSE]>>,
  <<Ask("cdt", Remotes), Ask("ila", Remotes)>> }

AllTools == UNION {{p[1], p[2]} : p \in Pairs}

BareOnly == {Ask("jtag", Local)}

RemoteCdt == {Ask("cdt", Remotes)}

\* The bench that no call uses is left alone.
MCInit ==
  /\ Init
  /\ <<args[1], args[2]>> \in Pairs
  /\ \A p \in Places \ {Place(1)} : board[p] = A

MCSpec == MCInit /\ [][Next]_vars /\ \A c \in Calls : WF_vars(CallStep(c))
=============================================================================
