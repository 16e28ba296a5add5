---------------------------- MODULE RpcContract ----------------------------
(***************************************************************************)
(* What internal/rpc promises over one connection, whatever its goroutines *)
(* and locks do: a request is executed at most once, the requests executed *)
(* are executed in the order they were sent - some may be passed over -    *)
(* and a call is answered at most once, with what the server made of that  *)
(* very request - or not at all, and then the caller knows nothing of what *)
(* the server did.                                                         *)
(***************************************************************************)
EXTENDS Sequences, Naturals

CONSTANTS Ids, Verdicts, Unknown, Lost

VARIABLES
  sent,      \* requests in the order they were written
  verdicts,  \* the requests executed, in order, each with what came of it
  outcome    \* [Ids -> what the caller of the request was told]

vars == <<sent, verdicts, outcome>>

Init == sent = <<>> /\ verdicts = <<>> /\ outcome = [i \in Ids |-> Unknown]

Send(i) ==
  /\ \A k \in 1..Len(sent) : sent[k] # i
  /\ outcome[i] = Unknown
  /\ sent' = Append(sent, i)
  /\ UNCHANGED <<verdicts, outcome>>

(* Neither the k-th request sent nor one sent after it was executed yet.   *)
Execute(k, v) ==
  /\ \A m \in 1..Len(verdicts), l \in k..Len(sent) : verdicts[m][1] # sent[l]
  /\ verdicts' = Append(verdicts, <<sent[k], v>>)
  /\ UNCHANGED <<sent, outcome>>

Answer(i) ==
  /\ outcome[i] = Unknown
  /\ \E m \in 1..Len(verdicts) :
       verdicts[m][1] = i /\ outcome' = [outcome EXCEPT ![i] = verdicts[m][2]]
  /\ UNCHANGED <<sent, verdicts>>

GiveUp(i) ==
  /\ outcome[i] = Unknown
  /\ outcome' = [outcome EXCEPT ![i] = Lost]
  /\ UNCHANGED <<sent, verdicts>>

Next ==
  \/ \E i \in Ids : Send(i) \/ Answer(i) \/ GiveUp(i)
  \/ \E k \in 1..Len(sent), v \in Verdicts : Execute(k, v)

Spec == Init /\ [][Next]_vars
=============================================================================
