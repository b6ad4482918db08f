----------------------------- MODULE MCLogServer -----------------------------
(***************************************************************************)
(* A client that sends a log, a bracket too many and something that is no  *)
(* JSON, as the selector cuts them.  Bulks of two, and a queue that is     *)
(* full with one entry: the client waits for room when a bulk is under way.*)
(***************************************************************************)
EXTENDS LogServer

CONSTANT c1

\* What the server makes of an item later: a name for it.
Named(item) ==
    CASE item.is = "error"          -> "refused"
      [] item = Item(<<"{", "}">>)  -> "log"
      [] item = Item(<<"[", "]">>)  -> "array"
      [] item = Item(<<"x">>)       -> "broken"

Sent(characters) == LET items == Cut(FALSE, characters)
                    IN  [i \in DOMAIN items |-> Named(items[i])]

MCStream == [c \in Clients |-> <<"log", "refused", "broken">>]
TwoLogs  == [c \in Clients |-> <<"log", "array">>]

ASSUME MCStreamIsCut == MCStream[c1] = Sent(<<"{", "}", "}", "x">>)
ASSUME TwoLogsAreCut == TwoLogs[c1] = Sent(<<"{", "}", NewLine, "[", "]">>)

=============================================================================
