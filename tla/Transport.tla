----------------------------- MODULE Transport -----------------------------
(***************************************************************************)
(* What the Client expects of a WatchableTransport (transport.go): Exited  *)
(* fires once, after the peer is gone; from then on ExitErr is settled, and *)
(* it holds an error only if the peer went before anybody asked it to; a   *)
(* Close that returns nil leaves no peer behind, and every Close call gets  *)
(* the same answer.                                                        *)
(***************************************************************************)
CONSTANT Closers    \* calls of Transport.Close

VARIABLES
  peer,    \* "none", "up", "gone" (its exit is known), "announced" (Exited fired)
  asked,   \* a Close call has begun
  blame,   \* ExitErr: "nil" or "err"
  verdict, \* what the Close calls return: "none" while undecided
  answer   \* what each Close call returned

tvars == <<peer, asked, blame, verdict, answer>>

TInit ==
  /\ peer = "none" /\ asked = FALSE /\ blame = "nil" /\ verdict = "none"
  /\ answer = [k \in Closers |-> "none"]

Opens ==
  /\ peer = "none" /\ peer' = "up"
  /\ UNCHANGED <<asked, blame, verdict, answer>>

Goes ==
  /\ peer = "up" /\ peer' = "gone"
  /\ blame' \in (IF asked THEN {"nil"} ELSE {"nil", "err"})
  /\ UNCHANGED <<asked, verdict, answer>>

Announces ==
  /\ peer = "gone" /\ peer' = "announced"
  /\ UNCHANGED <<asked, blame, verdict, answer>>

CloseBegins ==
  /\ peer # "none" /\ ~asked /\ asked' = TRUE
  /\ UNCHANGED <<peer, blame, verdict, answer>>

\* The first Close call decides; it may give up on a peer that does not go.
Decides ==
  /\ asked /\ verdict = "none"
  /\ \/ peer = "announced" /\ verdict' = "nil"
     \/ verdict' = "err"
  /\ UNCHANGED <<peer, asked, blame, answer>>

Answers(k) ==
  /\ verdict # "none" /\ answer[k] = "none"
  /\ answer' = [answer EXCEPT ![k] = verdict]
  /\ UNCHANGED <<peer, asked, blame, verdict>>

TNext == \/ Opens \/ Goes \/ Announces \/ CloseBegins \/ Decides
         \/ \E k \in Closers : Answers(k)

TSpec == TInit /\ [][TNext]_tvars

=============================================================================
