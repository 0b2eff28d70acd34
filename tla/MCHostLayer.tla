------------------------------ MODULE MCHostLayer ------------------------------
(***************************************************************************)
(* The compat host layer for TLC, one part at a time: descriptors and      *)
(* streams, every sequence of MaxCalls calls; what calls carry between the *)
(* guest's memory and the host, calls that move bytes one after the other  *)
(* and each of the others on its own; strings in every memory, numbers of  *)
(* every short text, and every directive of printf.                        *)
(***************************************************************************)
EXTENDS HostStreams, HostTransfers, GuestStrings

CONSTANTS MaxCalls, MaxTransfers        \* bounds of the model

VARIABLES part,         \* the part that is explored
          calls

layervars == <<svars, transfervars, stringvars, part, calls>>

Span(at, len) == [at |-> at, len |-> len]
MCSpans == {Span(1, 2), Span(3, 2), Span(0, 1), Span(2, 0), Span(1, 5), Span(0, 0)}
MCNames == {Span(3, 2), Span(0, 1)}
MCIovecs == {<<Span(1, 2)>>, <<Span(3, 2), Span(1, 2)>>,
             <<Span(1, 2), Span(2, 0), Span(3, 2)>>, <<Span(1, 2), Span(0, 1)>>}
MCPointers == {0, 5, 6}
MCLengths == {1, 3}
MCHoles == {{}, {2}, {4}, {5}}

Counted(n, bound) == calls < bound /\ calls' = calls + n

MCInit == /\ SInit /\ TransferInit /\ StringInit /\ calls = 0
          /\ part \in {"streams", "transfers", "strings"}
          /\ part # "transfers" => \A c \in Cells : mem[c] # NoCell
          /\ part # "strings" => stage = "number"
MCNext ==
  /\ UNCHANGED part
  /\ \/ /\ part = "streams" /\ Counted(1, MaxCalls) /\ SNext
        /\ UNCHANGED <<transfervars, stringvars>>
     \/ /\ part = "transfers" /\ Counted(1, MaxTransfers) /\ StreamCalls
        /\ UNCHANGED <<svars, stringvars>>
     \/ /\ part = "transfers" /\ Counted(MaxTransfers, 1) /\ ValueCalls
        /\ UNCHANGED <<svars, stringvars>>
     \/ /\ part = "strings" /\ StringNext
        /\ UNCHANGED <<svars, transfervars, calls>>
MCSpec == MCInit /\ [][MCNext]_layervars
===============================================================================
