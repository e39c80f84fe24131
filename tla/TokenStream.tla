---------------------------- MODULE TokenStream -----------------------------
(***************************************************************************)
(* What the engine promises its clients, with no queue, no memory and no   *)
(* eviction in sight: docs/01-architecture.md, "POST /generate".           *)
(*                                                                         *)
(* An opened stream receives tokens, one or several clients at a time, and *)
(* ends with the one that reaches its limit or with an earlier one that is *)
(* an end of sequence.  Nothing follows the last token.  Only a stream its *)
(* client has abandoned may be dropped; any other one is served to its end.*)
(***************************************************************************)
EXTENDS Naturals

CONSTANT Clients

VARIABLES
  stream,    \* "none", "open", "done" or "dropped"
  limit,     \* max_new_tokens, after the cap
  sent,      \* tokens sent
  abandoned  \* the clients that have gone away

streamVars == <<stream, limit, sent, abandoned>>

Init ==
  /\ stream = [c \in Clients |-> "none"]
  /\ limit = [c \in Clients |-> 0]
  /\ sent = [c \in Clients |-> 0]
  /\ abandoned = {}

Open(c) ==
  /\ stream[c] = "none"
  /\ stream' = [stream EXCEPT ![c] = "open"]
  /\ limit'[c] \in Nat
  /\ \A d \in Clients \ {c} : limit'[d] = limit[d]
  /\ UNCHANGED <<sent, abandoned>>

Live == {c \in Clients : stream[c] = "open"}

(* One token for everyone in S, the last one for those in last.            *)
Send(S, last) ==
  /\ S \subseteq Live /\ last \subseteq S
  /\ \A c \in S : sent[c] + 1 >= limit[c] => c \in last
  /\ sent' = [c \in Clients |-> IF c \in S THEN sent[c] + 1 ELSE sent[c]]
  /\ stream' = [c \in Clients |-> IF c \in last THEN "done" ELSE stream[c]]
  /\ UNCHANGED <<limit, abandoned>>

Abandon(c) ==
  /\ stream[c] # "none"
  /\ abandoned' = abandoned \cup {c}
  /\ UNCHANGED <<stream, limit, sent>>

Drop(S) ==
  /\ S \subseteq Live \cap abandoned
  /\ stream' = [c \in Clients |-> IF c \in S THEN "dropped" ELSE stream[c]]
  /\ UNCHANGED <<limit, sent, abandoned>>

Progress(c) ==
  \E S \in SUBSET Live :
    /\ c \in S
    /\ \/ Drop(S)
       \/ \E last \in SUBSET S : Send(S, last)

Next ==
  \/ \E c \in Clients : Open(c)
  \/ \E c \in Clients : Progress(c)
  \/ \E c \in Clients : Abandon(c)

Spec == Init /\ [][Next]_streamVars

FairSpec == Spec /\ \A c \in Clients : WF_streamVars(Progress(c))
=============================================================================
