------------------------------ MODULE Mailbox ------------------------------
(***************************************************************************)
(* internal/server/mail_server.go and the mail repository of               *)
(* internal/database/mongodb.go: calls of MailService that the RPC server  *)
(* executes concurrently, the ids the process counts in memory and the     *)
(* documents they select.  No index makes mail_id unique, and the counter  *)
(* starts from 1 whenever the process does, so that several documents may  *)
(* have one mail_id; a filter on mail_id then selects any one of them.     *)
(* Requests refused for a zero id, recipient or text are left out.         *)
(***************************************************************************)
EXTENDS Integers, FiniteSets

CONSTANTS
  MailCallers,   \* bound: calls in execution at a time
  MailUsers,     \* users
  MaxMails,      \* bound: mails composed
  MaxMailFaults, \* bound: failed operations of MongoDB
  MaxMailStarts  \* bound: restarts of the mail server

(* The bounds of a run are numbers.                                        *)
ASSUME MailBounds == MaxMails \in Nat /\ MaxMailFaults \in Nat /\ MaxMailStarts \in Nat

VARIABLES
  mails,      \* MongoDB: the collection "mails"
  nextMailID, \* MailServer.nextMailID
  mailCall,   \* the calls in execution
  posted,     \* history: every document ever inserted, as it was inserted
  claimed,    \* history: the documents a claim of which was carried out
  again,      \* history: those of which a second one was
  doubled,    \* history: those that two claims had checked at a time
  mailFaults, mailStarts

claims   == <<claimed, again, doubled>>
mailVars == <<mails, nextMailID, mailCall, posted, claims, mailFaults, mailStarts>>

(* A document; uid is its _id.                                             *)
Mails == [uid : 1..MaxMails, id : 1..MaxMails, to : MailUsers,
          rewards : BOOLEAN, read : BOOLEAN, claimed : BOOLEAN]
NoMailCall == [at |-> "idle"]

MailInit ==
  /\ mails = {} /\ nextMailID = 1 /\ posted = {}
  /\ claimed = {} /\ again = {} /\ doubled = {}
  /\ mailCall = [c \in MailCallers |-> NoMailCall]
  /\ mailFaults = 0 /\ mailStarts = 0

(* A write to MongoDB has its effect, or fails.                            *)
MailWrites(effect) ==
  \/ effect /\ UNCHANGED mailFaults
  \/ mailFaults < MaxMailFaults /\ mailFaults' = mailFaults + 1
     /\ UNCHANGED <<mails, posted>>
(* UpdateOne with a filter on mail_id: any one document it selects, or     *)
(* none at all.                                                            *)
UpdateMail(id, Update(_)) ==
  LET found == {m \in mails : m.id = id} IN
  IF found = {} THEN UNCHANGED mails
  ELSE \E m \in found : mails' = (mails \ {m}) \cup {Update(m)}
MarkRead(m)    == [m EXCEPT !.read = TRUE]
MarkClaimed(m) == [m EXCEPT !.claimed = TRUE]

MailGoes(c, at) == mailCall' = [mailCall EXCEPT ![c].at = at]
MailReturns(c)  == mailCall' = [mailCall EXCEPT ![c] = NoMailCall]

-----------------------------------------------------------------------------
(* SendMail: the id is taken under its mutex, then the mail is stored.     *)
SendMail(c, from, to, rewards) ==
  /\ mailCall[c].at = "idle" /\ from # to
  /\ nextMailID <= MaxMails
  /\ nextMailID' = nextMailID + 1
  /\ mailCall' = [mailCall EXCEPT ![c] =
       [at |-> "insert", id |-> nextMailID, to |-> to, rewards |-> rewards]]
  /\ UNCHANGED <<mails, posted, claims, mailFaults, mailStarts>>

CreateMail(c) ==
  /\ mailCall[c].at = "insert" /\ Cardinality(posted) < MaxMails
  /\ LET m == [uid |-> Cardinality(posted) + 1, id |-> mailCall[c].id,
               to |-> mailCall[c].to, rewards |-> mailCall[c].rewards,
               read |-> FALSE, claimed |-> FALSE]
     IN MailWrites(mails' = mails \cup {m} /\ posted' = posted \cup {m})
  /\ MailReturns(c)
  /\ UNCHANGED <<nextMailID, claims, mailStarts>>

(* GetMailByID and the checks of ReadMail, ClaimRewards and DeleteMail on  *)
(* the document as it was then; a call they refuse changes nothing.        *)
Opens(op, m) ==
  CASE op = "read"   -> ~m.read
    [] op = "claim"  -> m.rewards /\ ~m.claimed
    [] op = "delete" -> ~(m.rewards /\ ~m.claimed)
Claiming(u) == {c \in MailCallers : mailCall[c].at = "claim" /\ mailCall[c].mail.uid = u}
OpenMail(c, u, op) ==
  /\ mailCall[c].at = "idle"
  /\ \E m \in mails :
       /\ m.to = u /\ Opens(op, m)
       /\ mailCall' = [mailCall EXCEPT ![c] = [at |-> op, mail |-> m]]
       /\ doubled' = IF op = "claim" /\ Claiming(m.uid) # {} THEN doubled \cup {m.uid}
                                                             ELSE doubled
  /\ UNCHANGED <<mails, nextMailID, posted, claimed, again, mailFaults, mailStarts>>

(* UpdateMailReadStatus: the last step of ReadMail and of ClaimRewards.    *)
UpdateMailReadStatus(c) ==
  /\ mailCall[c].at = "read"
  /\ MailWrites(/\ UpdateMail(mailCall[c].mail.id, MarkRead)
                /\ UNCHANGED posted)
  /\ MailReturns(c)
  /\ UNCHANGED <<nextMailID, claims, mailStarts>>

(* Mutant: the mail is marked as read, and not as claimed.                 *)
ClaimMarksRead(c) ==
  /\ mailCall[c].at = "claim"
  /\ LET u == mailCall[c].mail.uid IN
     /\ UpdateMail(mailCall[c].mail.id, MarkRead) /\ UNCHANGED mailFaults
     /\ claimed' = claimed \cup {u}
     /\ again' = IF u \in claimed THEN again \cup {u} ELSE again
     /\ MailReturns(c)
  /\ UNCHANGED <<nextMailID, posted, doubled, mailStarts>>

(* ClaimRewards: the mail is marked, which is all that it does (handing    *)
(* the rewards out is left as a TODO); a mail that had not been read is    *)
(* then marked read as well, whether that succeeds or not.                 *)
UpdateMailClaimStatus(c) ==
  /\ mailCall[c].at = "claim"
  /\ LET u == mailCall[c].mail.uid IN
     \/ /\ UpdateMail(mailCall[c].mail.id, MarkClaimed)
        /\ claimed' = claimed \cup {u}
        /\ again' = IF u \in claimed THEN again \cup {u} ELSE again
        /\ UNCHANGED mailFaults
        /\ IF mailCall[c].mail.read THEN MailReturns(c)
           ELSE MailGoes(c, "read")
     \/ /\ mailFaults < MaxMailFaults /\ mailFaults' = mailFaults + 1
        /\ MailReturns(c) /\ UNCHANGED <<mails, claimed, again>>
  /\ UNCHANGED <<nextMailID, posted, doubled, mailStarts>>

(* DeleteMail: DeleteOne with a filter on mail_id.                         *)
DeleteMail(c) ==
  /\ mailCall[c].at = "delete"
  /\ LET found == {m \in mails : m.id = mailCall[c].mail.id} IN
     MailWrites(/\ \/ \E m \in found : mails' = mails \ {m}
                   \/ found = {} /\ UNCHANGED mails
                /\ UNCHANGED posted)
  /\ MailReturns(c)
  /\ UNCHANGED <<nextMailID, claims, mailStarts>>

(* The process stops, its calls where they are, and starts again:          *)
(* NewMailServer counts the ids from 1.                                    *)
MailRestart ==
  /\ mailStarts < MaxMailStarts /\ mailStarts' = mailStarts + 1
  /\ nextMailID' = 1 /\ mailCall' = [c \in MailCallers |-> NoMailCall]
  /\ UNCHANGED <<mails, posted, claims, mailFaults>>

MailNext ==
  \/ \E c \in MailCallers :
       \/ \E from \in MailUsers, to \in MailUsers, rewards \in BOOLEAN :
            SendMail(c, from, to, rewards)
       \/ \E u \in MailUsers, op \in {"read", "claim", "delete"} :
            OpenMail(c, u, op)
       \/ CreateMail(c) \/ UpdateMailReadStatus(c)
       \/ UpdateMailClaimStatus(c) \/ DeleteMail(c)
  \/ MailRestart

-----------------------------------------------------------------------------
MailTypeOK ==
  /\ mails \subseteq Mails /\ posted \subseteq Mails
  /\ claimed \cup doubled \subseteq 1..MaxMails /\ again \subseteq claimed /\ nextMailID \in 1..(MaxMails + 1)
  /\ \A c \in MailCallers :
       mailCall[c].at \in {"idle", "insert", "read", "claim", "delete"}
  /\ \A m, n \in mails : m.uid = n.uid => m = n
  /\ mailFaults \in 0..MaxMailFaults /\ mailStarts \in 0..MaxMailStarts

(* The rewards of a mail can be claimed, and be claimed once: until a      *)
(* claim of it is carried out the mail is there, and unclaimed, whatever   *)
(* calls overlap or fail and wherever the server crashes (DeleteMail       *)
(* refuses a mail with unclaimed rewards); and a second claim is carried   *)
(* out only when two had checked the mail before either marked it.  The    *)
(* exception is a mail whose mail_id a restarted server has used again: a  *)
(* call that has checked the one then marks or deletes the other.          *)
Reused(m) == \E n \in posted : n.uid # m.uid /\ n.id = m.id
RewardsClaimedOnce ==
  \A m \in posted :
    m.rewards /\ ~Reused(m) =>
      /\ m.uid \notin claimed => \E n \in mails : n.uid = m.uid /\ ~n.claimed
      /\ m.uid \in again => m.uid \in doubled
=============================================================================
