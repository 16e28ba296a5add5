---------------------------- MODULE ServicesProofs ----------------------------
(***************************************************************************)
(* Proofs about the services.  Each part of Services has an inductive      *)
(* invariant of its own, which its initial states have and its steps keep  *)
(* (lemmas of the parts, in the order of the modules); the parts share no  *)
(* variable, so a step of one leaves the invariants of the others alone,   *)
(* which is what the last section puts together.                           *)
(***************************************************************************)
EXTENDS Services, FiniteSetTheorems, SequenceTheorems, WellFoundedInduction, TLAPS

(* The order of the natural numbers, as a relation.                        *)
Below == {p \in Nat \X Nat : p[1] < p[2]}

(***************************************************************************)
(* The natural numbers have no descending chains.                          *)
(***************************************************************************)
LEMMA BelowIsWellFounded == IsWellFoundedOn(Below, Nat)
BY NatLessThanWellFounded DEF Below, OpToRel

(***************************************************************************)
(* A set of natural numbers that is not empty has a least one.             *)
(***************************************************************************)
LEMMA LeastNumber ==
  ASSUME NEW T \in SUBSET Nat, T # {}
  PROVE  \E v \in T : \A w \in T : v <= w
<1>1. PICK v \in T : \A w \in T : <<w, v>> \notin Below
  BY WFMin, BelowIsWellFounded
<1>2. ASSUME NEW w \in T  PROVE v <= w
  <2>1. w \in Nat /\ v \in Nat /\ <<w, v>> \notin Below
    BY <1>1
  <2>. QED  BY <2>1 DEF Below
<1>. QED  BY <1>2

-----------------------------------------------------------------------------
(* Mailbox: the calls, and the documents that were ever inserted.          *)
MailCalls == {NoMailCall}
  \cup [at : {"insert"}, id : 1..MaxMails, to : MailUsers, rewards : BOOLEAN]
  \cup [at : {"read", "claim", "delete"}, mail : Mails]

MailTypes ==
  /\ mailCall \in [MailCallers -> MailCalls]
  /\ claimed \subseteq 1..MaxMails /\ doubled \subseteq 1..MaxMails /\ again \subseteq claimed
  /\ nextMailID \in 1..(MaxMails + 1)
  /\ mailFaults \in 0..MaxMailFaults /\ mailStarts \in 0..MaxMailStarts
(* What no operation changes of a document.                                *)
SameMail(m, p) == p.uid = m.uid /\ p.id = m.id /\ p.rewards = m.rewards
MailsPosted ==
  /\ posted \subseteq Mails /\ IsFiniteSet(posted) /\ Cardinality(posted) <= MaxMails
  /\ \A p \in posted : p.uid <= Cardinality(posted)
  /\ \A p, q \in posted : p.uid = q.uid => p = q
  /\ mails \subseteq Mails /\ \A m, n \in mails : m.uid = n.uid => m = n
  /\ \A m \in mails : \E p \in posted : SameMail(m, p)
(* A mail that was claimed is marked so, unless the mark went to another   *)
(* mail with its id.                                                       *)
MailsClaimed ==
  /\ \A i \in claimed : \E p \in posted : p.uid = i
  /\ \A m \in mails : m.uid \in claimed => m.claimed \/ Reused(m)
(* A call about to mark a claimed mail checked it together with the call   *)
(* that has claimed it; one about to delete a mail with rewards has found  *)
(* them claimed.                                                           *)
Doubled(m) == m.uid \in doubled \/ Reused(m)
Spent(m)   == m.uid \in claimed \/ Reused(m)
Opened(x) ==
  x.at \in {"read", "claim", "delete"} =>
    /\ \E p \in posted : SameMail(x.mail, p)
    /\ x.at = "claim" /\ x.mail.uid \in claimed => Doubled(x.mail)
    /\ x.at = "delete" /\ x.mail.rewards => Spent(x.mail)
ClaimsApart ==
  \A c, d \in MailCallers :
    c # d /\ mailCall[c].at = "claim" /\ mailCall[d].at = "claim"
      /\ mailCall[c].mail.uid = mailCall[d].mail.uid => mailCall[c].mail.uid \in doubled
MailInv ==
  /\ MailTypes /\ MailsPosted /\ MailsClaimed /\ (\A c \in MailCallers : Opened(mailCall[c]))
  /\ ClaimsApart /\ RewardsClaimedOnce

(***************************************************************************)
(* Mailbox starts in its invariant.                                        *)
(***************************************************************************)
LEMMA MailStarts == MailInit => MailInv
<1>. SUFFICES ASSUME MailInit  PROVE MailInv
  OBVIOUS
<1>1. /\ mails = {} /\ posted = {} /\ claimed = {} /\ doubled = {} /\ again = {} /\ nextMailID = 1
      /\ mailFaults = 0 /\ mailStarts = 0
  BY DEF MailInit
<1>2. mailCall \in [MailCallers -> MailCalls] /\ \A c \in MailCallers : mailCall[c].at = "idle"
  BY DEF MailInit, MailCalls, NoMailCall
<1>3. MailTypes
  BY <1>1, <1>2, MailBounds DEF MailTypes
<1>4. MailsPosted
  <2>1. IsFiniteSet(posted) /\ Cardinality(posted) = 0
    BY <1>1, FS_EmptySet
  <2>. QED  BY <1>1, <2>1, MailBounds DEF MailsPosted
<1>5. MailsClaimed /\ ClaimsApart
  BY <1>1, <1>2 DEF MailsClaimed, ClaimsApart
<1>. QED  BY <1>1, <1>2, <1>3, <1>4, <1>5 DEF MailInv, Opened, RewardsClaimedOnce

(***************************************************************************)
(* One call moves; the others still know what they knew.                   *)
(***************************************************************************)
LEMMA MailCallMoves ==
  ASSUME MailInv, NEW c \in MailCallers, NEW y \in MailCalls, mailCall' = [mailCall EXCEPT ![c] = y],
         posted \subseteq posted', doubled \subseteq doubled', Opened(y)',
         \/ claimed' = claimed
         \/ mailCall[c].at = "claim" /\ claimed' = claimed \cup {mailCall[c].mail.uid},
         y.at = "claim" => Claiming(y.mail.uid) = {} \/ y.mail.uid \in doubled'
  PROVE  /\ mailCall' \in [MailCallers -> MailCalls]
         /\ \A d \in MailCallers : Opened(mailCall[d])'
         /\ ClaimsApart'
<1>1. \A d \in MailCallers : mailCall'[d] = IF d = c THEN y ELSE mailCall[d]
  BY DEF MailInv, MailTypes
<1>2. ASSUME NEW d \in MailCallers, d # c, NEW x, x = mailCall[d]
      PROVE  Opened(x)'
  <2>1. Opened(x)
    BY <1>2 DEF MailInv
  <2>2. x.at = "claim" /\ x.mail.uid \in claimed' => x.mail.uid \in claimed \/ x.mail.uid \in doubled
    BY <1>2 DEF MailInv, ClaimsApart
  <2>3. claimed \subseteq claimed'
    OBVIOUS
  <2>. QED  BY <2>1, <2>2, <2>3 DEF Opened, Spent, Doubled, Reused
<1>3. ASSUME NEW d \in MailCallers
      PROVE  Opened(mailCall[d])'
  <2>2. CASE d = c
    <3>1. mailCall'[d] = y
      BY <1>1, <2>2
    <3>. QED  BY <3>1 DEF Opened
  <2>3. CASE d # c
    <3>1. PICK x : x = mailCall[d] /\ x = mailCall'[d]
      BY <1>1, <2>3
    <3>2. Opened(x)'
      BY <1>2, <2>3, <3>1
    <3>. QED  BY <3>1, <3>2 DEF Opened
  <2>. QED  BY <2>2, <2>3
<1>4. ClaimsApart'
  <2>1. \A d \in MailCallers : d # c /\ y.at = "claim" /\ mailCall[d].at = "claim"
                                 /\ y.mail.uid = mailCall[d].mail.uid => y.mail.uid \in doubled'
    BY DEF Claiming
  <2>2. \A d, e \in MailCallers : d # c /\ e # c /\ d # e /\ mailCall[d].at = "claim"
                                    /\ mailCall[e].at = "claim" /\ mailCall[d].mail.uid = mailCall[e].mail.uid
                                  => mailCall[d].mail.uid \in doubled'
    BY DEF MailInv, ClaimsApart
  <2>. QED  BY <1>1, <2>1, <2>2 DEF ClaimsApart
<1>. QED  BY <1>3, <1>4 DEF MailInv, MailTypes

(***************************************************************************)
(* The documents with the id of an opened mail are that mail, or ones that *)
(* have the id from another life of the server.                            *)
(***************************************************************************)
LEMMA SameOrReused ==
  ASSUME MailInv, NEW x, Opened(x), x.at \in {"read", "claim", "delete"},
         NEW n \in mails, n.id = x.mail.id
  PROVE  (n.uid = x.mail.uid /\ n.rewards = x.mail.rewards) \/ Reused(n)
<1>1. PICK p \in posted : SameMail(x.mail, p)
  BY DEF Opened
<1>2. PICK q \in posted : SameMail(n, q)
  BY DEF MailInv, MailsPosted
<1>3. CASE p.uid = q.uid
  BY <1>1, <1>2, <1>3 DEF MailInv, MailsPosted, SameMail
<1>4. CASE p.uid # q.uid
  BY <1>1, <1>2, <1>4 DEF SameMail, Reused
<1>. QED  BY <1>3, <1>4

(***************************************************************************)
(* A document is marked; as claimed only when it has been claimed or its   *)
(* id is used again.                                                       *)
(***************************************************************************)
LEMMA MailMarked ==
  ASSUME MailInv, NEW n \in mails, NEW q \in Mails, SameMail(n, q),
         mails' = (mails \ {n}) \cup {q}, UNCHANGED <<posted, doubled>>,
         n.claimed => q.claimed, q.claimed => n.claimed \/ Spent(n)',
         \A m \in mails : m.uid \in claimed' => m.uid \in claimed \/ Reused(m) \/ (m = n /\ q.claimed),
         claimed \subseteq claimed', \A i \in claimed' : \E p \in posted : p.uid = i,
         \A i \in again' : i \in again \/ i \in doubled \/ \E p \in posted : p.uid = i /\ Reused(p)
  PROVE  MailsPosted' /\ MailsClaimed' /\ RewardsClaimedOnce'
<1>1. MailsPosted'
  <2>1. \A k, m \in mails' : k.uid = m.uid => k = m
    BY DEF MailInv, MailsPosted, SameMail
  <2>2. \A m \in mails' : \E p \in posted : SameMail(m, p)
    BY DEF MailInv, MailsPosted, SameMail
  <2>. QED  BY <2>1, <2>2 DEF MailInv, MailsPosted
<1>2. MailsClaimed'
  <2>. SUFFICES ASSUME NEW m \in mails', m.uid \in claimed', ~Reused(m)  PROVE m.claimed
    BY DEF MailsClaimed, Reused
  <2>1. CASE m = q
    <3>1. n.uid \in claimed' /\ ~Reused(n)
      BY <2>1 DEF SameMail, Reused
    <3>2. n.uid \in claimed \/ q.claimed
      BY <3>1
    <3>. QED  BY <2>1, <3>1, <3>2 DEF MailInv, MailsClaimed
  <2>2. CASE m # q
    <3>1. m \in mails /\ m # n
      BY <2>2
    <3>2. m.uid \in claimed
      BY <3>1
    <3>. QED  BY <3>1, <3>2 DEF MailInv, MailsClaimed
  <2>. QED  BY <2>1, <2>2
<1>3. ASSUME NEW m \in posted, m.rewards, m.uid \notin claimed', ~Reused(m)
      PROVE  \E k \in mails' : k.uid = m.uid /\ ~k.claimed
  <2>1. PICK k \in mails : k.uid = m.uid /\ ~k.claimed
    BY <1>3 DEF MailInv, RewardsClaimedOnce
  <2>2. CASE k # n
    BY <2>1, <2>2
  <2>3. CASE k = n
    <3>1. PICK p \in posted : SameMail(n, p)
      BY DEF MailInv, MailsPosted
    <3>2. m.id = n.id
      BY <2>1, <2>3, <3>1 DEF MailInv, MailsPosted, SameMail
    <3>3. ~Spent(n)'
      BY <1>3, <2>1, <2>3, <3>2 DEF Spent, Reused
    <3>. QED  BY <2>1, <2>3, <3>3 DEF SameMail
  <2>. QED  BY <2>2, <2>3
<1>4. ASSUME NEW m \in posted, m.rewards, m.uid \in again', ~Reused(m)
      PROVE  m.uid \in doubled
  <2>1. \A p \in posted : p.uid = m.uid => ~Reused(p)
    BY <1>4 DEF MailInv, MailsPosted
  <2>2. m.uid \in again \/ m.uid \in doubled
    BY <1>4, <2>1
  <2>. QED  BY <1>4, <2>2 DEF MailInv, RewardsClaimedOnce
<1>. QED  BY <1>1, <1>2, <1>3, <1>4 DEF RewardsClaimedOnce, Reused

(***************************************************************************)
(* UpdateMailReadStatus marks the first document that its filter selects.  *)
(***************************************************************************)
LEMMA MailRead ==
  ASSUME MailInv, NEW c \in MailCallers, UNCHANGED <<posted, claims>>, mailCall[c].at = "read",
         UpdateMail(mailCall[c].mail.id, MarkRead) \/ UNCHANGED mails
  PROVE  MailsPosted' /\ MailsClaimed' /\ RewardsClaimedOnce'
<1>1. CASE UNCHANGED mails
  BY <1>1 DEF MailInv, MailsPosted, MailsClaimed, RewardsClaimedOnce, Reused, claims
<1>2. ASSUME NEW n \in mails, mails' = (mails \ {n}) \cup {MarkRead(n)}
      PROVE  MailsPosted' /\ MailsClaimed' /\ RewardsClaimedOnce'
  <2>1. PICK q : q = MarkRead(n)
    OBVIOUS
  <2>2. n \in Mails
    BY DEF MailInv, MailsPosted
  <2>3. q \in Mails /\ SameMail(n, q) /\ q.claimed = n.claimed
    BY <2>1, <2>2 DEF Mails, MarkRead, SameMail
  <2>4. UNCHANGED <<posted, doubled>> /\ claimed' = claimed /\ again' = again
    BY DEF claims
  <2>5. \A i \in claimed' : \E p \in posted : p.uid = i
    BY <2>4 DEF MailInv, MailsClaimed
  <2>. QED  BY <1>2, <2>1, <2>3, <2>4, <2>5, MailMarked
<1>. QED  BY <1>1, <1>2 DEF UpdateMail

(***************************************************************************)
(* UpdateMailClaimStatus carries a claim out: the document with the id, if *)
(* there still is one, is marked.                                          *)
(***************************************************************************)
LEMMA MailClaimed ==
  ASSUME MailInv, NEW c \in MailCallers, NEW x, x = mailCall[c], x.at = "claim", x.mail \in Mails,
         UpdateMail(x.mail.id, MarkClaimed), UNCHANGED <<posted, doubled>>,
         claimed' = claimed \cup {x.mail.uid},
         again' = IF x.mail.uid \in claimed THEN again \cup {x.mail.uid} ELSE again
  PROVE  MailsPosted' /\ MailsClaimed' /\ RewardsClaimedOnce'
<1>1. Opened(x)
  BY DEF MailInv
<1>2. PICK p \in posted : SameMail(x.mail, p)
  BY <1>1 DEF Opened
<1>3. \A i \in claimed' : \E r \in posted : r.uid = i
  BY <1>2 DEF MailInv, MailsClaimed, SameMail
<1>4. \A i \in again' : i \in again \/ i \in doubled \/ \E r \in posted : r.uid = i /\ Reused(r)
  <2>. SUFFICES ASSUME x.mail.uid \in claimed, x.mail.uid \notin doubled
                PROVE  p.uid = x.mail.uid /\ Reused(p)
    OBVIOUS
  <2>1. Reused(x.mail)
    BY <1>1 DEF Opened, Doubled
  <2>. QED  BY <1>2, <2>1 DEF SameMail, Reused
<1>5. \A m \in mails : m.uid \in claimed' => m.uid \in claimed \/ Reused(m) \/ m.id = x.mail.id
  BY <1>2 DEF MailInv, MailsPosted, SameMail
<1>6. ASSUME \A n \in mails : n.id # x.mail.id, UNCHANGED mails
      PROVE  MailsPosted' /\ MailsClaimed' /\ RewardsClaimedOnce'
  <2>1. MailsPosted'
    BY <1>6 DEF MailInv, MailsPosted
  <2>2. MailsClaimed'
    BY <1>3, <1>5, <1>6 DEF MailInv, MailsClaimed, Reused
  <2>3. \A m, r \in posted : m.uid = r.uid => m = r
    BY DEF MailInv, MailsPosted
  <2>. QED  BY <1>4, <1>6, <2>1, <2>2, <2>3 DEF MailInv, RewardsClaimedOnce, Reused
<1>7. ASSUME NEW n \in mails, n.id = x.mail.id, mails' = (mails \ {n}) \cup {MarkClaimed(n)}
      PROVE  MailsPosted' /\ MailsClaimed' /\ RewardsClaimedOnce'
  <2>1. PICK q : q = MarkClaimed(n)
    OBVIOUS
  <2>2. n \in Mails
    BY DEF MailInv, MailsPosted
  <2>3. q \in Mails /\ SameMail(n, q) /\ q.claimed
    BY <2>1, <2>2 DEF Mails, MarkClaimed, SameMail
  <2>4. n.uid = x.mail.uid \/ Reused(n)
    BY <1>1, <1>7, SameOrReused
  <2>5. Spent(n)'
    BY <2>4 DEF Spent, Reused
  <2>6. ASSUME NEW m \in mails, m.uid \in claimed', m.uid \notin claimed, ~Reused(m)
        PROVE  m = n
    <3>1. PICK r \in posted : SameMail(m, r)
      BY DEF MailInv, MailsPosted
    <3>2. PICK s \in posted : SameMail(n, s)
      BY DEF MailInv, MailsPosted
    <3>3. m.id = n.id
      BY <1>5, <1>7, <2>6
    <3>4. m.uid = n.uid
      BY <2>6, <3>2, <3>3 DEF SameMail, Reused
    <3>. QED  BY <3>4 DEF MailInv, MailsPosted
  <2>7. claimed \subseteq claimed'
    OBVIOUS
  <2>. QED  BY <1>3, <1>4, <1>7, <2>1, <2>3, <2>5, <2>6, <2>7, MailMarked
<1>. QED  BY <1>6, <1>7 DEF UpdateMail

(***************************************************************************)
(* SendMail takes an id.                                                   *)
(***************************************************************************)
LEMMA MailSent ==
  ASSUME MailInv, NEW c \in MailCallers, NEW from \in MailUsers, NEW to \in MailUsers,
         NEW rewards \in BOOLEAN, SendMail(c, from, to, rewards)
  PROVE  MailInv'
<1>1. nextMailID \in 1..MaxMails /\ nextMailID' \in 1..(MaxMails + 1)
  BY MailBounds DEF SendMail, MailInv, MailTypes
<1>2. PICK y : y = [at |-> "insert", id |-> nextMailID, to |-> to, rewards |-> rewards]
  OBVIOUS
<1>3. y \in MailCalls /\ y.at = "insert"
  BY <1>1, <1>2 DEF MailCalls
<1>4. /\ mailCall' = [mailCall EXCEPT ![c] = y]
      /\ UNCHANGED <<mails, posted, claimed, again, doubled, mailFaults, mailStarts>>
  BY <1>2 DEF SendMail, claims
<1>5. Opened(y)'
  BY <1>3 DEF Opened
<1>6. /\ mailCall' \in [MailCallers -> MailCalls]
      /\ \A d \in MailCallers : Opened(mailCall[d])'
      /\ ClaimsApart'
  BY <1>3, <1>4, <1>5, MailCallMoves
<1>7. MailTypes' /\ MailsPosted' /\ MailsClaimed' /\ RewardsClaimedOnce'
  BY <1>1, <1>4, <1>6 DEF MailInv, MailTypes, MailsPosted, MailsClaimed, RewardsClaimedOnce, Reused
<1>. QED  BY <1>6, <1>7 DEF MailInv

(***************************************************************************)
(* CreateMail inserts a document with a number that no other has had.      *)
(***************************************************************************)
LEMMA MailStored ==
  ASSUME MailInv, NEW c \in MailCallers, CreateMail(c)
  PROVE  MailInv'
<1>1. PICK x : x = mailCall[c]
  OBVIOUS
<1>2. x \in [at : {"insert"}, id : 1..MaxMails, to : MailUsers, rewards : BOOLEAN]
  BY <1>1 DEF CreateMail, MailInv, MailTypes, MailCalls, NoMailCall
<1>3. Cardinality(posted) \in Nat /\ Cardinality(posted) < MaxMails /\ IsFiniteSet(posted)
  BY FS_CardinalityType DEF CreateMail, MailInv, MailsPosted
<1>4. PICK u : u = Cardinality(posted) + 1
  OBVIOUS
<1>5. PICK m : m = [uid |-> u, id |-> x.id, to |-> x.to, rewards |-> x.rewards, read |-> FALSE,
                    claimed |-> FALSE]
  OBVIOUS
<1>6. m \in Mails /\ m.uid = u /\ m.id = x.id /\ ~m.claimed /\ u \in 1..MaxMails
  BY <1>2, <1>3, <1>4, <1>5, MailBounds DEF Mails
<1>7. /\ mailCall' = [mailCall EXCEPT ![c] = NoMailCall]
      /\ UNCHANGED <<nextMailID, claimed, again, doubled, mailStarts>>
      /\ \/ mails' = mails \cup {m} /\ posted' = posted \cup {m} /\ UNCHANGED mailFaults
         \/ /\ mailFaults < MaxMailFaults /\ mailFaults' = mailFaults + 1
            /\ UNCHANGED <<mails, posted>>
  BY <1>1, <1>4, <1>5 DEF CreateMail, MailWrites, MailReturns, claims
<1>8. /\ mailCall' \in [MailCallers -> MailCalls]
      /\ \A d \in MailCallers : Opened(mailCall[d])'
      /\ ClaimsApart'
  <2>1. NoMailCall \in MailCalls /\ Opened(NoMailCall)' /\ NoMailCall.at # "claim"
    BY DEF MailCalls, NoMailCall, Opened
  <2>2. posted \subseteq posted' /\ claimed' = claimed /\ doubled \subseteq doubled'
    BY <1>7
  <2>. QED  BY <1>7, <2>1, <2>2, MailCallMoves
<1>9. MailTypes'
  <2>1. mailFaults' \in 0..MaxMailFaults
    BY <1>7, MailBounds DEF MailInv, MailTypes
  <2>. QED  BY <1>7, <1>8, <2>1 DEF MailInv, MailTypes
<1>10. CASE UNCHANGED <<mails, posted>>
  BY <1>7, <1>8, <1>9, <1>10 DEF MailInv, MailsPosted, MailsClaimed, RewardsClaimedOnce, Reused
<1>11. CASE mails' = mails \cup {m} /\ posted' = posted \cup {m}
  <2>1. \A p \in posted : p.uid \in Nat /\ p.uid < u
    <3>1. \A p \in posted : p.uid \in 1..MaxMails
      BY DEF MailInv, MailsPosted, Mails
    <3>. QED  BY <1>3, <1>4, <3>1 DEF MailInv, MailsPosted
  <2>2. \A n \in mails : n.uid \in Nat /\ n.uid < u
    BY <2>1 DEF MailInv, MailsPosted, SameMail
  <2>3. m \notin posted /\ u \in Nat
    BY <1>6, <2>1
  <2>4. IsFiniteSet(posted') /\ Cardinality(posted') = u
    BY <1>3, <1>4, <1>11, <2>3, FS_AddElement
  <2>5. \A p \in posted' : p.uid <= u
    BY <1>6, <1>11, <2>1, <2>3
  <2>6. \A p, q \in posted' : p.uid = q.uid => p = q
    BY <1>6, <1>11, <2>1, <2>3 DEF MailInv, MailsPosted
  <2>7. \A p, q \in mails' : p.uid = q.uid => p = q
    BY <1>6, <1>11, <2>2, <2>3 DEF MailInv, MailsPosted
  <2>8. \A n \in mails' : \E p \in posted' : SameMail(n, p)
    BY <1>11 DEF MailInv, MailsPosted, SameMail
  <2>9. MailsPosted'
    <3>1. mails' \subseteq Mails /\ posted' \subseteq Mails /\ u <= MaxMails
      BY <1>6, <1>11 DEF MailInv, MailsPosted
    <3>. QED  BY <2>4, <2>5, <2>6, <2>7, <2>8, <3>1 DEF MailsPosted
  <2>10. u \notin claimed
    BY <2>1, <2>3 DEF MailInv, MailsClaimed
  <2>11. \A p : Reused(p) => Reused(p)'
    BY <1>11 DEF Reused
  <2>12. MailsClaimed'
    <3>1. \A i \in claimed' : \E p \in posted' : p.uid = i
      BY <1>7, <1>11 DEF MailInv, MailsClaimed
    <3>2. ASSUME NEW n \in mails', n.uid \in claimed'
          PROVE  n.claimed \/ Reused(n)'
      <4>1. n # m /\ n \in mails
        BY <1>6, <1>7, <1>11, <2>10, <3>2
      <4>2. n.claimed \/ Reused(n)
        BY <1>7, <3>2, <4>1 DEF MailInv, MailsClaimed
      <4>. QED  BY <2>11, <4>2
    <3>. QED  BY <3>1, <3>2 DEF MailsClaimed, Reused
  <2>13. RewardsClaimedOnce'
    <3>1. u \notin again
      BY <2>10 DEF MailInv, MailTypes
    <3>. QED  BY <1>6, <1>7, <1>11, <2>11, <3>1 DEF MailInv, RewardsClaimedOnce
  <2>. QED  BY <1>8, <1>9, <2>9, <2>12, <2>13 DEF MailInv
<1>. QED  BY <1>7, <1>10, <1>11

(***************************************************************************)
(* A call opens a mail.  To delete one with rewards it must be claimed; to *)
(* claim it, it must not be.                                               *)
(***************************************************************************)
LEMMA MailOpened ==
  ASSUME MailInv, NEW c \in MailCallers, NEW u \in MailUsers, NEW op \in {"read", "claim", "delete"},
         OpenMail(c, u, op)
  PROVE  MailInv'
<1>1. UNCHANGED <<mails, nextMailID, posted, claimed, again, mailFaults, mailStarts>>
  BY DEF OpenMail
<1>2. PICK m \in mails :
        /\ Opens(op, m) /\ mailCall' = [mailCall EXCEPT ![c] = [at |-> op, mail |-> m]]
        /\ doubled' = IF op = "claim" /\ Claiming(m.uid) # {} THEN doubled \cup {m.uid} ELSE doubled
  BY DEF OpenMail
<1>3. PICK y : y = [at |-> op, mail |-> m]
  OBVIOUS
<1>4. y.at = op /\ y.mail = m /\ m \in Mails /\ y \in MailCalls
  BY <1>3 DEF MailInv, MailsPosted, MailCalls
<1>5. PICK p \in posted : SameMail(m, p)
  BY DEF MailInv, MailsPosted
<1>6. m.claimed /\ m.rewards => Spent(m)
  <2>. SUFFICES ASSUME m.claimed, m.rewards, ~Spent(m)  PROVE FALSE
    OBVIOUS
  <2>1. p.rewards /\ p.uid \notin claimed /\ ~Reused(p)
    BY <1>5 DEF Spent, SameMail, Reused
  <2>2. PICK n \in mails : n.uid = p.uid /\ ~n.claimed
    BY <2>1 DEF MailInv, RewardsClaimedOnce
  <2>. QED  BY <1>5, <2>2 DEF MailInv, MailsPosted, SameMail
<1>7. op = "delete" /\ m.rewards => Spent(m)
  BY <1>2, <1>4, <1>6 DEF Opens, Mails
<1>8. op = "claim" /\ m.uid \in claimed => Reused(m)
  <2>1. op = "claim" => ~m.claimed
    BY <1>2 DEF Opens
  <2>. QED  BY <2>1 DEF MailInv, MailsClaimed
<1>9. Opened(y)'
  BY <1>1, <1>4, <1>5, <1>7, <1>8 DEF Opened, Spent, Doubled, Reused
<1>10. doubled \subseteq doubled' /\ (y.at = "claim" => Claiming(y.mail.uid) = {} \/ y.mail.uid \in doubled')
  BY <1>2, <1>4
<1>11. /\ mailCall' \in [MailCallers -> MailCalls]
       /\ \A d \in MailCallers : Opened(mailCall[d])'
       /\ ClaimsApart'
  BY <1>1, <1>2, <1>3, <1>4, <1>9, <1>10, MailCallMoves
<1>12. MailTypes'
  <2>1. doubled' \subseteq 1..MaxMails
    BY <1>2, <1>4 DEF MailInv, MailTypes, Mails
  <2>. QED  BY <1>1, <1>11, <2>1 DEF MailInv, MailTypes
<1>13. MailsPosted' /\ MailsClaimed'
  BY <1>1 DEF MailInv, MailsPosted, MailsClaimed, Reused
<1>14. RewardsClaimedOnce'
  BY <1>1, <1>10 DEF MailInv, RewardsClaimedOnce, Reused
<1>. QED  BY <1>11, <1>12, <1>13, <1>14 DEF MailInv

(***************************************************************************)
(* A call that has opened a mail returns, or goes on to mark it read.      *)
(***************************************************************************)
LEMMA MailGoesOn ==
  ASSUME MailInv, NEW c \in MailCallers, NEW x, x = mailCall[c],
         x \in [at : {"read", "claim", "delete"}, mail : Mails],
         MailReturns(c) \/ MailGoes(c, "read"), UNCHANGED <<posted, doubled>>,
         claimed' = claimed \/ (x.at = "claim" /\ claimed' = claimed \cup {x.mail.uid})
  PROVE  /\ mailCall' \in [MailCallers -> MailCalls]
         /\ \A d \in MailCallers : Opened(mailCall[d])'
         /\ ClaimsApart'
<1>1. PICK y \in {NoMailCall, [x EXCEPT !.at = "read"]} : mailCall' = [mailCall EXCEPT ![c] = y]
  BY DEF MailReturns, MailGoes
<1>2. y \in MailCalls /\ Opened(y)' /\ y.at # "claim"
  <2>1. CASE y = NoMailCall
    BY <2>1 DEF MailCalls, NoMailCall, Opened
  <2>2. CASE y = [x EXCEPT !.at = "read"]
    <3>1. y.at = "read" /\ y.mail = x.mail /\ y \in MailCalls
      BY <2>2 DEF MailCalls
    <3>2. \E p \in posted : SameMail(x.mail, p)
      BY DEF MailInv, Opened
    <3>. QED  BY <3>1, <3>2 DEF Opened
  <2>. QED  BY <2>1, <2>2
<1>. QED  BY <1>1, <1>2, MailCallMoves

(***************************************************************************)
(* The steps of a call that has opened a mail.                             *)
(***************************************************************************)
LEMMA MailTurns ==
  ASSUME MailInv, NEW c \in MailCallers,
         UpdateMailReadStatus(c) \/ UpdateMailClaimStatus(c) \/ DeleteMail(c)
  PROVE  MailInv'
<1>1. PICK x : x = mailCall[c]
  OBVIOUS
<1>2. x \in [at : {"read", "claim", "delete"}, mail : Mails] /\ Opened(x)
  <2>1. x.at \in {"read", "claim", "delete"}
    BY <1>1 DEF UpdateMailReadStatus, UpdateMailClaimStatus, DeleteMail
  <2>2. x \in MailCalls /\ Opened(x)
    BY <1>1 DEF MailInv, MailTypes
  <2>. QED  BY <2>1, <2>2 DEF MailCalls, NoMailCall
<1>3. UNCHANGED <<nextMailID, posted, doubled, mailStarts>>
  BY DEF UpdateMailReadStatus, UpdateMailClaimStatus, DeleteMail, MailWrites, claims
<1>4. mailFaults' = mailFaults \/ (mailFaults < MaxMailFaults /\ mailFaults' = mailFaults + 1)
  BY DEF UpdateMailReadStatus, UpdateMailClaimStatus, DeleteMail, MailWrites
<1>5. mailFaults' \in 0..MaxMailFaults
  BY <1>4, MailBounds DEF MailInv, MailTypes
<1>6. MailReturns(c) \/ MailGoes(c, "read")
  BY DEF UpdateMailReadStatus, UpdateMailClaimStatus, DeleteMail
<1>7. ASSUME UNCHANGED <<claimed, again>>, MailsPosted', MailsClaimed', RewardsClaimedOnce'
      PROVE  MailInv'
  <2>1. /\ mailCall' \in [MailCallers -> MailCalls]
        /\ \A d \in MailCallers : Opened(mailCall[d])'
        /\ ClaimsApart'
    BY <1>1, <1>2, <1>3, <1>6, <1>7, MailGoesOn
  <2>2. MailTypes'
    BY <1>3, <1>5, <1>7, <2>1 DEF MailInv, MailTypes
  <2>. QED  BY <1>7, <2>1, <2>2 DEF MailInv
<1>8. CASE UpdateMailReadStatus(c)
  <2>1. /\ mailCall[c].at = "read" /\ UNCHANGED claims /\ UNCHANGED <<claimed, again>>
        /\ UpdateMail(mailCall[c].mail.id, MarkRead) \/ UNCHANGED mails
    BY <1>8 DEF UpdateMailReadStatus, MailWrites, claims
  <2>2. MailsPosted' /\ MailsClaimed' /\ RewardsClaimedOnce'
    BY <1>3, <2>1, MailRead
  <2>. QED  BY <1>7, <2>1, <2>2
<1>9. CASE UpdateMailClaimStatus(c)
  <2>1. CASE UNCHANGED <<mails, claimed, again>>
    <3>1. MailsPosted' /\ MailsClaimed' /\ RewardsClaimedOnce'
      BY <1>3, <2>1 DEF MailInv, MailsPosted, MailsClaimed, RewardsClaimedOnce, Reused
    <3>. QED  BY <1>7, <2>1, <3>1
  <2>2. CASE /\ UpdateMail(x.mail.id, MarkClaimed) /\ claimed' = claimed \cup {x.mail.uid}
             /\ again' = IF x.mail.uid \in claimed THEN again \cup {x.mail.uid} ELSE again
    <3>1. x.at = "claim" /\ x.mail \in Mails
      BY <1>1, <1>2, <1>9 DEF UpdateMailClaimStatus
    <3>2. MailsPosted' /\ MailsClaimed' /\ RewardsClaimedOnce'
      BY <1>1, <1>3, <2>2, <3>1, MailClaimed
    <3>3. /\ mailCall' \in [MailCallers -> MailCalls]
          /\ \A d \in MailCallers : Opened(mailCall[d])'
          /\ ClaimsApart'
      BY <1>1, <1>2, <1>3, <1>6, <2>2, <3>1, MailGoesOn
    <3>4. claimed' \subseteq 1..MaxMails /\ again' \subseteq claimed'
      BY <2>2, <3>1 DEF MailInv, MailTypes, Mails
    <3>5. MailTypes'
      BY <1>3, <1>5, <3>3, <3>4 DEF MailInv, MailTypes
    <3>. QED  BY <3>2, <3>3, <3>5 DEF MailInv
  <2>. QED  BY <1>1, <1>9, <2>1, <2>2 DEF UpdateMailClaimStatus
<1>10. CASE DeleteMail(c)
  <2>1. UNCHANGED <<claimed, again>>
    BY <1>10 DEF DeleteMail, claims
  <2>2. x.at = "delete" /\ \/ UNCHANGED mails
                           \/ \E n \in mails : n.id = x.mail.id /\ mails' = mails \ {n}
    BY <1>1, <1>10 DEF DeleteMail, MailWrites
  <2>3. CASE UNCHANGED mails
    <3>1. MailsPosted' /\ MailsClaimed' /\ RewardsClaimedOnce'
      BY <1>3, <2>1, <2>3 DEF MailInv, MailsPosted, MailsClaimed, RewardsClaimedOnce, Reused
    <3>. QED  BY <1>7, <2>1, <3>1
  <2>4. ASSUME NEW n \in mails, n.id = x.mail.id, mails' = mails \ {n}
        PROVE  MailInv'
    <3>1. n.rewards => Spent(n)
      BY <1>2, <2>2, <2>4, SameOrReused DEF Opened, Spent, Reused
    <3>2. MailsPosted' /\ MailsClaimed'
      BY <1>3, <2>1, <2>4 DEF MailInv, MailsPosted, MailsClaimed, Reused
    <3>3. ASSUME NEW m \in posted, m.rewards, m.uid \notin claimed, ~Reused(m)
          PROVE  \E k \in mails' : k.uid = m.uid /\ ~k.claimed
      <4>1. PICK k \in mails : k.uid = m.uid /\ ~k.claimed
        BY <3>3 DEF MailInv, RewardsClaimedOnce
      <4>2. ASSUME k = n  PROVE FALSE
        <5>1. PICK p \in posted : SameMail(n, p)
          BY DEF MailInv, MailsPosted
        <5>2. p = m
          BY <4>1, <4>2, <5>1 DEF MailInv, MailsPosted, SameMail
        <5>. QED  BY <3>1, <3>3, <5>1, <5>2 DEF SameMail, Spent, Reused
      <4>. QED  BY <2>4, <4>1, <4>2
    <3>4. RewardsClaimedOnce'
      BY <1>3, <2>1, <3>3 DEF MailInv, RewardsClaimedOnce, Reused
    <3>. QED  BY <1>7, <2>1, <3>2, <3>4
  <2>. QED  BY <2>2, <2>3, <2>4
<1>. QED  BY <1>8, <1>9, <1>10

(***************************************************************************)
(* Every step of Mailbox keeps its invariant.                              *)
(***************************************************************************)
LEMMA MailSteps ==
  ASSUME MailInv, MailNext
  PROVE  MailInv'
<1>1. CASE MailRestart
  <2>1. /\ mailCall' = [c \in MailCallers |-> NoMailCall] /\ nextMailID' = 1
        /\ mailStarts' \in 0..MaxMailStarts
        /\ UNCHANGED <<mails, posted, claimed, again, doubled, mailFaults>>
    BY <1>1, MailBounds DEF MailRestart, MailInv, MailTypes, claims
  <2>2. mailCall' \in [MailCallers -> MailCalls] /\ \A c \in MailCallers : mailCall'[c].at = "idle"
    BY <2>1 DEF MailCalls, NoMailCall
  <2>3. MailTypes' /\ ClaimsApart' /\ \A c \in MailCallers : Opened(mailCall[c])'
    BY <2>1, <2>2, MailBounds DEF MailInv, MailTypes, Opened, ClaimsApart
  <2>4. MailsPosted' /\ MailsClaimed' /\ RewardsClaimedOnce'
    BY <2>1 DEF MailInv, MailsPosted, MailsClaimed, RewardsClaimedOnce, Reused
  <2>. QED  BY <2>3, <2>4 DEF MailInv
<1>. QED  BY <1>1, MailSent, MailStored, MailOpened, MailTurns DEF MailNext

(***************************************************************************)
(* The invariant has the types and what RewardsClaimedOnce says.           *)
(***************************************************************************)
LEMMA RewardsFollow == MailInv => MailTypeOK /\ RewardsClaimedOnce
<1>. SUFFICES ASSUME MailInv  PROVE MailTypeOK
  BY DEF MailInv
<1>1. \A c \in MailCallers :
        mailCall[c].at \in {"idle", "insert", "read", "claim", "delete"}
  BY DEF MailInv, MailTypes, MailCalls, NoMailCall
<1>. QED  BY <1>1 DEF MailInv, MailTypes, MailsPosted, MailTypeOK

-----------------------------------------------------------------------------
(* Games: the calls, the records, and the games that were started.         *)
GameCalls == {NoGameCall} \cup [at : {"create"}, game : 1..MaxGames]
             \cup [at : {"update"}, game : 1..MaxGames, winner : Winners]
GameRecords == [game : 1..MaxGames, id : 1..MaxGames, ended : BOOLEAN, winner : Winners \cup {Nobody}]

GameTypes ==
  /\ gameCall \in [GameCallers -> GameCalls] /\ records \subseteq GameRecords
  /\ gameFaults \in 0..MaxGameFaults /\ gameStarts \in 0..MaxGameStarts
(* The games are numbered as they are started; the ids of a process are    *)
(* below the next one.                                                     *)
GamesNumbered ==
  /\ started \subseteq [uid : 1..MaxGames, id : 1..MaxGames] /\ IsFiniteSet(started)
  /\ Cardinality(started) <= MaxGames /\ \A s \in started : s.uid <= Cardinality(started)
  /\ nextGameID \in 1..(Cardinality(started) + 1)
  /\ games \subseteq Instances
  /\ \A g \in games : g.id < nextGameID /\ [uid |-> g.uid, id |-> g.id] \in started
  /\ \A g, h \in games : g.id = h.id => g = h
  /\ \A g, h \in games : g.uid = h.uid => g = h
(* Whatever refers to a game refers to one that was started.               *)
GamesStarted ==
  /\ \A c \in GameCallers :
       gameCall[c].at = "create" => \E s \in started : s.uid = gameCall[c].game
  /\ \A r \in records : [uid |-> r.game, id |-> r.id] \in started
  /\ \A v \in verdicts : \E s \in started : s.uid = v.game
(* A game in the map is over if and only if there is a verdict on it.      *)
VerdictsOfGames ==
  /\ \A v, w \in verdicts : v.game = w.game => v = w
  /\ \A g \in games : g.status = Ended => Verdict(g.uid, g.winner) \in verdicts
  /\ \A g \in games : g.status # Ended => \A v \in verdicts : v.game # g.uid
  /\ \A c \in GameCallers :
       gameCall[c].at = "update" => Verdict(gameCall[c].game, gameCall[c].winner) \in verdicts
VerdictsOnRecord ==
  /\ \A r \in records :
       r.ended => \E v \in verdicts : v.winner = r.winner /\ HasId(v.game, r.id)
  /\ \A v \in verdicts : ~Locked(v.game) /\ v.game \notin unrecorded =>
       \E r \in records : r.ended /\ HasId(v.game, r.id)
GamesInv == GameTypes /\ GamesNumbered /\ GamesStarted /\ VerdictsOfGames /\ VerdictsOnRecord

(***************************************************************************)
(* Games starts in its invariant.                                          *)
(***************************************************************************)
LEMMA GamesStarts == GamesInit => GamesInv
<1>. SUFFICES ASSUME GamesInit  PROVE GamesInv
  OBVIOUS
<1>1. /\ games = {} /\ nextGameID = 1 /\ records = {} /\ started = {} /\ verdicts = {}
      /\ gameFaults = 0 /\ gameStarts = 0
  BY DEF GamesInit
<1>2. gameCall \in [GameCallers -> GameCalls] /\ \A c \in GameCallers : gameCall[c].at = "idle"
  BY DEF GamesInit, GameCalls, NoGameCall
<1>3. GameTypes
  BY <1>1, <1>2, GameBounds DEF GameTypes
<1>4. IsFiniteSet(started) /\ Cardinality(started) = 0
  BY <1>1, FS_EmptySet
<1>5. GamesNumbered
  BY <1>1, <1>4, GameBounds DEF GamesNumbered
<1>. QED  BY <1>1, <1>2, <1>3, <1>5 DEF GamesInv, GamesStarted, VerdictsOfGames, VerdictsOnRecord

(***************************************************************************)
(* StartGame gives its game a number that no other has had, and an id that *)
(* no other game of the process has.                                       *)
(***************************************************************************)
LEMMA GameIsStarted ==
  ASSUME GamesInv, NEW c \in GameCallers, StartGame(c)
  PROVE  GamesInv'
<1>1. Cardinality(started) \in Nat /\ Cardinality(started) < MaxGames
  BY FS_CardinalityType DEF GamesInv, GamesNumbered, StartGame
<1>2. PICK u : u = Cardinality(started) + 1
  OBVIOUS
<1>3. PICK g : g = [uid |-> u, id |-> nextGameID, status |-> InProgress, winner |-> Nobody]
  OBVIOUS
<1>4. PICK s : s = [uid |-> u, id |-> g.id]
  OBVIOUS
<1>5. /\ nextGameID' = nextGameID + 1 /\ games' = games \cup {g} /\ started' = started \cup {s}
      /\ gameCall' = [gameCall EXCEPT ![c] = [at |-> "create", game |-> u]]
      /\ gameCall[c] = NoGameCall
      /\ UNCHANGED <<records, verdicts, unrecorded, gameFaults, gameStarts>>
  BY <1>2, <1>3, <1>4 DEF StartGame, GameGoes
<1>6. u \in 1..MaxGames /\ nextGameID \in 1..u
  BY <1>1, <1>2, GameBounds DEF GamesInv, GamesNumbered
<1>7. /\ g \in Instances /\ g.uid = u /\ g.id = nextGameID /\ g.status # Ended
      /\ s \in [uid : 1..MaxGames, id : 1..MaxGames] /\ s.uid = u /\ s.id = nextGameID
  <2>1. nextGameID \in 1..MaxGames
    BY <1>6, GameBounds
  <2>. QED  BY <1>3, <1>4, <1>6, <2>1 DEF Instances, InProgress, Ended
<1>8. \A x \in started : x.uid \in Nat /\ x.uid < u /\ x # s
  BY <1>1, <1>2, <1>7 DEF GamesInv, GamesNumbered
<1>9. IsFiniteSet(started') /\ Cardinality(started') = u
  <2>1. IsFiniteSet(started) /\ s \notin started
    BY <1>8 DEF GamesInv, GamesNumbered
  <2>. QED  BY <1>2, <1>5, <2>1, FS_AddElement
<1>10. gameCall' \in [GameCallers -> GameCalls]
       /\ \A d \in GameCallers :
            gameCall'[d] = IF d = c THEN [at |-> "create", game |-> u] ELSE gameCall[d]
  BY <1>5, <1>6 DEF GamesInv, GameTypes, GameCalls
<1>11. GameTypes'
  BY <1>5, <1>10 DEF GamesInv, GameTypes
<1>12. GamesNumbered'
  <2>1. started' \subseteq [uid : 1..MaxGames, id : 1..MaxGames] /\ Cardinality(started') <= MaxGames
    BY <1>5, <1>6, <1>7, <1>9 DEF GamesInv, GamesNumbered
  <2>2. \A x \in started' : x.uid <= u
    BY <1>5, <1>6, <1>7, <1>8
  <2>3. nextGameID' \in 1..(u + 1) /\ games' \subseteq Instances
    BY <1>5, <1>6, <1>7 DEF GamesInv, GamesNumbered
  <2>4. \A h \in games : h.id \in Nat /\ h.id < nextGameID
    <3>1. \A h \in Instances : h.id \in Nat
      BY DEF Instances
    <3>. QED  BY <3>1 DEF GamesInv, GamesNumbered
  <2>5. \A h \in games : h.uid < u /\ h.uid \in Nat
    BY <1>8 DEF GamesInv, GamesNumbered
  <2>6. nextGameID \in Nat /\ u \in Nat
    BY <1>6
  <2>7. \A h \in games' : h.id < nextGameID'
    BY <1>5, <1>7, <2>4, <2>6
  <2>8. \A h \in games' : [uid |-> h.uid, id |-> h.id] \in started'
    BY <1>4, <1>5, <1>7 DEF GamesInv, GamesNumbered
  <2>9. \A h, k \in games' : h.id = k.id => h = k
    BY <1>5, <1>7, <2>4, <2>6 DEF GamesInv, GamesNumbered
  <2>10. \A h, k \in games' : h.uid = k.uid => h = k
    BY <1>5, <1>7, <2>5, <2>6 DEF GamesInv, GamesNumbered
  <2>. QED  BY <1>9, <2>1, <2>2, <2>3, <2>7, <2>8, <2>9, <2>10 DEF GamesNumbered
<1>13. GamesStarted'
  <2>1. \E x \in started' : x.uid = u
    BY <1>5, <1>7
  <2>. QED  BY <1>5, <1>10, <2>1 DEF GamesInv, GamesStarted
<1>14. \A v \in verdicts : v.game # u
  BY <1>6, <1>8 DEF GamesInv, GamesStarted
<1>15. VerdictsOfGames'
  BY <1>5, <1>7, <1>10, <1>14 DEF GamesInv, VerdictsOfGames
<1>16. VerdictsOnRecord'
  <2>1. \A n : Locked(n) => Locked(n)'
    BY <1>5, <1>10 DEF Locked, NoGameCall
  <2>2. \A n, i : HasId(n, i) => HasId(n, i)'
    BY <1>5 DEF HasId
  <2>. QED  BY <1>5, <2>1, <2>2 DEF GamesInv, VerdictsOnRecord
<1>. QED  BY <1>11, <1>12, <1>13, <1>15, <1>16 DEF GamesInv

(***************************************************************************)
(* EndGame has a verdict on a game that had none.                          *)
(***************************************************************************)
LEMMA GameIsEnded ==
  ASSUME GamesInv, NEW c \in GameCallers, EndGame(c)
  PROVE  GamesInv'
<1>1. UNCHANGED <<nextGameID, records, started, unrecorded, gameFaults, gameStarts>>
      /\ gameCall[c] = NoGameCall
  BY DEF EndGame
<1>2. PICK g \in games, w \in Winners :
        /\ g.status # Ended
        /\ games' = (games \ {g}) \cup {[g EXCEPT !.status = Ended, !.winner = w]}
        /\ verdicts' = verdicts \cup {Verdict(g.uid, w)}
        /\ gameCall' = [gameCall EXCEPT ![c] = [at |-> "update", game |-> g.uid, winner |-> w]]
  BY DEF EndGame, GameGoes
<1>3. PICK h : h = [g EXCEPT !.status = Ended, !.winner = w]
  OBVIOUS
<1>4. PICK v : v = Verdict(g.uid, w)
  OBVIOUS
<1>5. g \in Instances
  BY DEF GamesInv, GamesNumbered
<1>6. /\ h \in Instances /\ h.uid = g.uid /\ h.id = g.id /\ h.status = Ended /\ h.winner = w
      /\ games' = (games \ {g}) \cup {h} /\ verdicts' = verdicts \cup {v} /\ v.game = g.uid
  BY <1>2, <1>3, <1>4, <1>5 DEF Instances, Verdict
<1>7. /\ gameCall' \in [GameCallers -> GameCalls]
      /\ \A d \in GameCallers :
           gameCall'[d] = IF d = c THEN [at |-> "update", game |-> g.uid, winner |-> w] ELSE gameCall[d]
  BY <1>2, <1>5 DEF GamesInv, GameTypes, GameCalls, Instances
<1>8. GameTypes'
  BY <1>1, <1>7 DEF GamesInv, GameTypes
<1>9. GamesNumbered'
  <2>1. games' \subseteq Instances /\ \A k \in games' : k.id < nextGameID
    BY <1>6 DEF GamesInv, GamesNumbered
  <2>2. \A k \in games' : [uid |-> k.uid, id |-> k.id] \in started
    BY <1>6 DEF GamesInv, GamesNumbered
  <2>3. \A k, l \in games' : k.id = l.id => k = l
    BY <1>6 DEF GamesInv, GamesNumbered
  <2>4. \A k, l \in games' : k.uid = l.uid => k = l
    BY <1>6 DEF GamesInv, GamesNumbered
  <2>. QED  BY <1>1, <2>1, <2>2, <2>3, <2>4 DEF GamesInv, GamesNumbered
<1>10. GamesStarted'
  <2>1. [uid |-> g.uid, id |-> g.id] \in started
    BY DEF GamesInv, GamesNumbered
  <2>2. \E s \in started : s.uid = v.game
    BY <1>6, <2>1
  <2>. QED  BY <1>1, <1>6, <1>7, <2>2 DEF GamesInv, GamesStarted
<1>11. VerdictsOfGames'
  <2>1. \A x \in verdicts : x.game # g.uid
    BY <1>2 DEF GamesInv, VerdictsOfGames
  <2>2. \A x, y \in verdicts' : x.game = y.game => x = y
    BY <1>6, <2>1 DEF GamesInv, VerdictsOfGames
  <2>3. \A k \in games' : k.status = Ended => Verdict(k.uid, k.winner) \in verdicts'
    BY <1>4, <1>6 DEF GamesInv, VerdictsOfGames
  <2>4. \A k \in games' : k.status # Ended => \A x \in verdicts' : x.game # k.uid
    BY <1>6 DEF GamesInv, VerdictsOfGames, GamesNumbered
  <2>5. \A d \in GameCallers :
          gameCall'[d].at = "update" => Verdict(gameCall'[d].game, gameCall'[d].winner) \in verdicts'
    BY <1>4, <1>6, <1>7 DEF GamesInv, VerdictsOfGames
  <2>. QED  BY <2>2, <2>3, <2>4, <2>5 DEF VerdictsOfGames
<1>12. VerdictsOnRecord'
  <2>1. \A n : Locked(n) => Locked(n)'
    BY <1>1, <1>7 DEF Locked, NoGameCall
  <2>2. Locked(v.game)'
    BY <1>6, <1>7 DEF Locked
  <2>3. \A n, i : HasId(n, i) => HasId(n, i)'
    BY <1>1 DEF HasId
  <2>. QED  BY <1>1, <1>6, <2>1, <2>2, <2>3 DEF GamesInv, VerdictsOnRecord
<1>. QED  BY <1>8, <1>9, <1>10, <1>11, <1>12 DEF GamesInv

(***************************************************************************)
(* CreateRecord leaves a record of a game that has not ended.              *)
(***************************************************************************)
LEMMA RecordIsCreated ==
  ASSUME GamesInv, NEW c \in GameCallers, CreateRecord(c)
  PROVE  GamesInv'
<1>1. /\ gameCall[c].at = "create" /\ gameCall' = [gameCall EXCEPT ![c] = NoGameCall]
      /\ UNCHANGED <<games, nextGameID, started, verdicts, gameStarts>>
  BY DEF CreateRecord, GameReturns, GameGoes
<1>2. PICK g : g = CHOOSE s \in started : s.uid = gameCall[c].game
  OBVIOUS
<1>3. g \in started
  BY <1>1, <1>2 DEF GamesInv, GamesStarted
<1>4. PICK r : r = [game |-> g.uid, id |-> g.id, ended |-> FALSE, winner |-> Nobody]
  OBVIOUS
<1>5. r \in GameRecords /\ ~r.ended /\ [uid |-> r.game, id |-> r.id] \in started
  BY <1>3, <1>4 DEF GamesInv, GamesNumbered, GameRecords
<1>6. records \subseteq records' /\ records' \subseteq records \cup {r} /\ unrecorded \subseteq unrecorded'
  BY <1>2, <1>4 DEF CreateRecord
<1>7. gameFaults' \in 0..MaxGameFaults
  BY GameBounds DEF CreateRecord, GamesInv, GameTypes
<1>8. /\ gameCall' \in [GameCallers -> GameCalls]
      /\ \A d \in GameCallers : gameCall'[d] = IF d = c THEN NoGameCall ELSE gameCall[d]
  BY <1>1 DEF GamesInv, GameTypes, GameCalls
<1>9. GameTypes' /\ GamesNumbered'
  BY <1>1, <1>5, <1>6, <1>7, <1>8 DEF GamesInv, GameTypes, GamesNumbered
<1>10. GamesStarted'
  BY <1>1, <1>5, <1>6, <1>8 DEF GamesInv, GamesStarted, NoGameCall
<1>11. VerdictsOfGames'
  BY <1>1, <1>8 DEF GamesInv, VerdictsOfGames, NoGameCall
<1>12. VerdictsOnRecord'
  <2>1. \A n : Locked(n) => Locked(n)'
    BY <1>1, <1>8 DEF Locked, NoGameCall
  <2>2. \A n, i : HasId(n, i) => HasId(n, i)'
    BY <1>1 DEF HasId
  <2>. QED  BY <1>1, <1>5, <1>6, <2>1, <2>2 DEF GamesInv, VerdictsOnRecord
<1>. QED  BY <1>9, <1>10, <1>11, <1>12 DEF GamesInv

(***************************************************************************)
(* UpdateRecord writes the outcome over a record with the game's id.       *)
(***************************************************************************)
LEMMA RecordIsUpdated ==
  ASSUME GamesInv, NEW c \in GameCallers, UpdateRecord(c)
  PROVE  GamesInv'
<1>1. PICK x : x = gameCall[c]
  OBVIOUS
<1>2. /\ x.at = "update" /\ gameCall' = [gameCall EXCEPT ![c] = NoGameCall]
      /\ UNCHANGED <<games, nextGameID, started, verdicts, gameStarts>>
  BY <1>1 DEF UpdateRecord, GameReturns, GameGoes
<1>3. x \in [at : {"update"}, game : 1..MaxGames, winner : Winners] /\ Verdict(x.game, x.winner) \in verdicts
  BY <1>1, <1>2 DEF GamesInv, GameTypes, GameCalls, NoGameCall, VerdictsOfGames
<1>4. /\ gameCall' \in [GameCallers -> GameCalls]
      /\ \A d \in GameCallers : gameCall'[d] = IF d = c THEN NoGameCall ELSE gameCall[d]
  BY <1>2 DEF GamesInv, GameTypes, GameCalls
<1>5. gameFaults' \in 0..MaxGameFaults
  <2>1. gameFaults' = gameFaults \/ (gameFaults < MaxGameFaults /\ gameFaults' = gameFaults + 1)
    BY DEF UpdateRecord
  <2>2. gameFaults \in 0..MaxGameFaults
    BY DEF GamesInv, GameTypes
  <2>. QED  BY <2>1, <2>2, GameBounds
<1>6. /\ \A n : Locked(n) /\ n # x.game => Locked(n)'
      /\ \A n, i : HasId(n, i) => HasId(n, i)'
  BY <1>1, <1>2, <1>4 DEF Locked, HasId
<1>7. GamesNumbered' /\ VerdictsOfGames'
  BY <1>2, <1>4 DEF GamesInv, GamesNumbered, VerdictsOfGames, NoGameCall
<1>8. CASE UNCHANGED records /\ unrecorded' = unrecorded \cup {x.game}
  <2>1. GameTypes' /\ GamesStarted'
    BY <1>2, <1>4, <1>5, <1>8 DEF GamesInv, GameTypes, GamesStarted, NoGameCall
  <2>2. VerdictsOnRecord'
    BY <1>2, <1>6, <1>8 DEF GamesInv, VerdictsOnRecord
  <2>. QED  BY <1>7, <2>1, <2>2 DEF GamesInv
<1>9. ASSUME NEW r \in records, NEW s \in started, s.uid = x.game, s.id = r.id, UNCHANGED unrecorded,
             records' = (records \ {r}) \cup {[r EXCEPT !.ended = TRUE, !.winner = x.winner]}
      PROVE  GamesInv'
  <2>1. PICK q : q = [r EXCEPT !.ended = TRUE, !.winner = x.winner]
    OBVIOUS
  <2>2. r \in GameRecords
    BY DEF GamesInv, GameTypes
  <2>3. /\ q \in GameRecords /\ q.game = r.game /\ q.id = r.id /\ q.ended /\ q.winner = x.winner
        /\ records' = (records \ {r}) \cup {q}
    BY <1>3, <1>9, <2>1, <2>2 DEF GameRecords
  <2>4. GameTypes'
    BY <1>2, <1>4, <1>5, <2>3 DEF GamesInv, GameTypes
  <2>5. GamesStarted'
    BY <1>2, <1>4, <2>3 DEF GamesInv, GamesStarted, NoGameCall
  <2>6. HasId(x.game, q.id)'
    <3>1. s = [uid |-> x.game, id |-> q.id]
      BY <1>9, <2>3 DEF GamesInv, GamesNumbered
    <3>. QED  BY <1>2, <3>1 DEF HasId
  <2>7. VerdictsOnRecord'
    <3>1. ASSUME NEW p \in records', p.ended
          PROVE  \E v \in verdicts' : v.winner = p.winner /\ HasId(v.game, p.id)'
      <4>1. CASE p = q
        <5>1. PICK v \in verdicts : v.game = x.game /\ v.winner = x.winner
          BY <1>3 DEF Verdict
        <5>. QED  BY <1>2, <2>3, <2>6, <4>1, <5>1
      <4>2. CASE p # q
        <5>1. PICK v \in verdicts : v.winner = p.winner /\ HasId(v.game, p.id)
          BY <2>3, <3>1, <4>2 DEF GamesInv, VerdictsOnRecord
        <5>. QED  BY <1>2, <1>6, <5>1
      <4>. QED  BY <4>1, <4>2
    <3>2. ASSUME NEW v \in verdicts', ~Locked(v.game)', v.game \notin unrecorded'
          PROVE  \E p \in records' : p.ended /\ HasId(v.game, p.id)'
      <4>1. CASE v.game = x.game
        BY <2>3, <2>6, <4>1
      <4>2. CASE v.game # x.game
        <5>1. PICK p \in records : p.ended /\ HasId(v.game, p.id)
          BY <1>2, <1>6, <1>9, <3>2, <4>2 DEF GamesInv, VerdictsOnRecord
        <5>2. CASE p = r
          <6>1. HasId(v.game, q.id)'
            BY <1>6, <2>3, <5>1, <5>2
          <6>. QED  BY <2>3, <6>1
        <5>3. CASE p # r
          BY <1>6, <2>3, <5>1, <5>3
        <5>. QED  BY <5>2, <5>3
      <4>. QED  BY <4>1, <4>2
    <3>. QED  BY <3>1, <3>2 DEF VerdictsOnRecord
  <2>. QED  BY <1>7, <2>4, <2>5, <2>7 DEF GamesInv
<1>. QED  BY <1>1, <1>8, <1>9 DEF UpdateRecord

(***************************************************************************)
(* The process of the games ends and starts again.                         *)
(***************************************************************************)
LEMMA GamesAreGone ==
  ASSUME GamesInv, GameRestart
  PROVE  GamesInv'
<1>1. /\ games' = {} /\ nextGameID' = 1 /\ gameCall' = [c \in GameCallers |-> NoGameCall]
      /\ unrecorded' = unrecorded \cup
           {g \in 1..MaxGames : \E c \in GameCallers : gameCall[c] # NoGameCall /\ gameCall[c].game = g}
      /\ UNCHANGED <<records, started, verdicts, gameFaults>>
      /\ gameStarts' \in 0..MaxGameStarts
  BY GameBounds DEF GameRestart, GamesInv, GameTypes
<1>2. gameCall' \in [GameCallers -> GameCalls] /\ \A c \in GameCallers : gameCall'[c].at = "idle"
  BY <1>1 DEF GameCalls, NoGameCall
<1>3. Cardinality(started) \in Nat
  BY FS_CardinalityType DEF GamesInv, GamesNumbered
<1>4. GameTypes' /\ GamesStarted' /\ VerdictsOfGames'
  BY <1>1, <1>2 DEF GamesInv, GameTypes, GamesStarted, VerdictsOfGames
<1>5. GamesNumbered'
  BY <1>1, <1>3 DEF GamesInv, GamesNumbered
<1>6. VerdictsOnRecord'
  <2>1. \A n, i : HasId(n, i) => HasId(n, i)'
    BY <1>1 DEF HasId
  <2>2. \A n : Locked(n) => n \in unrecorded'
    <3>. SUFFICES ASSUME NEW n, NEW c \in GameCallers, gameCall[c].at = "update", gameCall[c].game = n
                  PROVE  n \in unrecorded'
      BY DEF Locked
    <3>1. gameCall[c] # NoGameCall /\ gameCall[c].game \in 1..MaxGames
      BY DEF GamesInv, GameTypes, GameCalls, NoGameCall
    <3>. QED  BY <1>1, <3>1
  <2>. QED  BY <1>1, <2>1, <2>2 DEF GamesInv, VerdictsOnRecord
<1>. QED  BY <1>4, <1>5, <1>6 DEF GamesInv

(***************************************************************************)
(* Every step of Games keeps its invariant.                                *)
(***************************************************************************)
LEMMA GamesSteps ==
  ASSUME GamesInv, GamesNext
  PROVE  GamesInv'
<1>1. ASSUME NEW g \in games, RemoveGame(g)
      PROVE  GamesInv'
  <2>1. games' = games \ {g}
        /\ UNCHANGED <<nextGameID, records, gameCall, started, verdicts, unrecorded, gameFaults,
                       gameStarts>>
    BY <1>1 DEF RemoveGame
  <2>2. GameTypes' /\ GamesNumbered'
    BY <2>1 DEF GamesInv, GameTypes, GamesNumbered
  <2>3. GamesStarted' /\ VerdictsOfGames' /\ VerdictsOnRecord'
    BY <2>1 DEF GamesInv, GamesStarted, VerdictsOfGames, VerdictsOnRecord, HasId, Locked
  <2>. QED  BY <2>2, <2>3 DEF GamesInv
<1>. QED  BY <1>1, GameIsStarted, GameIsEnded, RecordIsCreated, RecordIsUpdated, GamesAreGone
          DEF GamesNext

(***************************************************************************)
(* The invariant has the types and what RecordsTellGames says.             *)
(***************************************************************************)
LEMMA TellingFollows == GamesInv => GamesTypeOK /\ RecordsTellGames
<1>. SUFFICES ASSUME GamesInv  PROVE GamesTypeOK /\ RecordsTellGames
  OBVIOUS
<1>1. nextGameID \in 1..(MaxGames + 1)
  BY FS_CardinalityType, GameBounds DEF GamesInv, GamesNumbered
<1>2. \A c \in GameCallers : gameCall[c].at \in {"idle", "create", "update"}
  BY DEF GamesInv, GameTypes, GameCalls, NoGameCall
<1>3. GamesTypeOK
  BY <1>1, <1>2 DEF GamesInv, GameTypes, GamesNumbered, GameRecords, GamesTypeOK
<1>. QED  BY <1>3 DEF GamesInv, GamesStarted, VerdictsOfGames, VerdictsOnRecord, HasId, RecordsTellGames

-----------------------------------------------------------------------------
(* Friends: what a call may hold, and the rows and calls that make u a     *)
(* friend of v.                                                            *)
FriendCalls == {NoFriendCall}
  \cup [op : {"add", "accept"}, at : {"insert"}, user : FriendUsers, friend : FriendUsers]
  \cup [op : {"delete"}, at : {"other"}, user : FriendUsers, friend : FriendUsers]
FriendRows == [id : 1..rows, user : FriendUsers, friend : FriendUsers, status : {Pending, Accepted}]
Befriending(u, v) == Rows(u, v, {Accepted})
Accepting(u, v) == {c \in FriendCallers : /\ friendCall[c].op = "accept"
                                          /\ friendCall[c].user = u /\ friendCall[c].friend = v}
Deleting(u, v) == {c \in FriendCallers : /\ friendCall[c].op = "delete"
                                         /\ friendCall[c].user = u /\ friendCall[c].friend = v}

FriendTypes ==
  /\ friendCall \in [FriendCallers -> FriendCalls] /\ rows \in 0..MaxFriendRows
  /\ uneven \in BOOLEAN /\ friendFaults \in 0..MaxFriendFaults
  /\ friends \subseteq FriendRows /\ IsFiniteSet(friends)
  /\ \A f, g \in friends : f.id = g.id => f = g
  /\ \A c \in FriendCallers : friendCall[c] # NoFriendCall => friendCall[c].user # friendCall[c].friend
(* An acceptance owes its user a row that the friend has; a deletion in    *)
(* its second half has left its friend without one; there is one kind of   *)
(* them at a time.                                                         *)
Owed ==
  \A u, v \in FriendUsers :
    u # v /\ Deleting(u, v) = {} /\ Deleting(v, u) = {} =>
      Cardinality(Befriending(u, v)) + Cardinality(Accepting(u, v)) =
        Cardinality(Befriending(v, u)) + Cardinality(Accepting(v, u))
HalfDeleted == \A u, v \in FriendUsers : Deleting(v, u) # {} => Befriending(u, v) = {}
FriendsInv ==
  FriendTypes /\ (~uneven => Owed /\ HalfDeleted /\ ~(Overlaps("accept") /\ Overlaps("delete")))

(***************************************************************************)
(* The rows and the calls of two users are finite sets.                    *)
(***************************************************************************)
LEMMA FriendNumbers ==
  ASSUME IsFiniteSet(friends)
  PROVE  \A u, v : /\ IsFiniteSet(Befriending(u, v)) /\ Cardinality(Befriending(u, v)) \in Nat
                   /\ IsFiniteSet(Accepting(u, v)) /\ Cardinality(Accepting(u, v)) \in Nat
<1>1. \A u, v : Befriending(u, v) \subseteq friends /\ Accepting(u, v) \subseteq FriendCallers
  BY DEF Befriending, Rows, Accepting
<1>. QED  BY <1>1, FriendBounds, FS_Subset, FS_CardinalityType

(***************************************************************************)
(* Friends starts in its invariant.                                        *)
(***************************************************************************)
LEMMA FriendsStarts == FriendsInit => FriendsInv
<1>. SUFFICES ASSUME FriendsInit  PROVE FriendsInv
  OBVIOUS
<1>1. friends = {} /\ rows = 0 /\ uneven = FALSE /\ friendFaults = 0
  BY DEF FriendsInit
<1>2. friendCall \in [FriendCallers -> FriendCalls] /\ \A c \in FriendCallers : friendCall[c] = NoFriendCall
  BY DEF FriendsInit, FriendCalls
<1>3. FriendTypes
  <2>1. rows \in 0..MaxFriendRows /\ friendFaults \in 0..MaxFriendFaults
    BY <1>1, FriendBounds
  <2>2. IsFiniteSet(friends)
    BY <1>1, FS_EmptySet
  <2>. QED  BY <1>1, <1>2, <2>1, <2>2 DEF FriendTypes
<1>4. \A u, v : Befriending(u, v) = {} /\ Accepting(u, v) = {} /\ Deleting(u, v) = {}
  BY <1>1, <1>2 DEF Befriending, Rows, Accepting, Deleting, NoFriendCall
<1>5. Owed /\ HalfDeleted /\ ~Overlaps("accept")
  <2>1. \A u, v : Cardinality(Befriending(u, v)) = Cardinality({}) /\ Cardinality(Accepting(u, v)) = Cardinality({})
    BY <1>4
  <2>. QED  BY <1>2, <1>4, <2>1 DEF Owed, HalfDeleted, Overlaps, NoFriendCall
<1>. QED  BY <1>3, <1>5 DEF FriendsInv

(***************************************************************************)
(* A call that moves changes the sets of the calls by itself.              *)
(***************************************************************************)
LEMMA FriendCallMoves ==
  ASSUME FriendTypes, NEW c \in FriendCallers, NEW y \in FriendCalls,
         friendCall' = [friendCall EXCEPT ![c] = y]
  PROVE  /\ friendCall' \in [FriendCallers -> FriendCalls]
         /\ \A d \in FriendCallers : friendCall'[d] = IF d = c THEN y ELSE friendCall[d]
         /\ \A u, v : /\ Accepting(u, v)' = IF y.op = "accept" /\ y.user = u /\ y.friend = v
                                            THEN Accepting(u, v) \cup {c} ELSE Accepting(u, v) \ {c}
                      /\ Deleting(u, v)' = IF y.op = "delete" /\ y.user = u /\ y.friend = v
                                           THEN Deleting(u, v) \cup {c} ELSE Deleting(u, v) \ {c}
<1>1. friendCall' \in [FriendCallers -> FriendCalls]
      /\ \A d \in FriendCallers : friendCall'[d] = IF d = c THEN y ELSE friendCall[d]
  BY DEF FriendTypes
<1>2. \A u, v : Accepting(u, v)' = IF y.op = "accept" /\ y.user = u /\ y.friend = v
                                   THEN Accepting(u, v) \cup {c} ELSE Accepting(u, v) \ {c}
  BY <1>1 DEF Accepting
<1>3. \A u, v : Deleting(u, v)' = IF y.op = "delete" /\ y.user = u /\ y.friend = v
                                  THEN Deleting(u, v) \cup {c} ELSE Deleting(u, v) \ {c}
  BY <1>1 DEF Deleting
<1>. QED  BY <1>1, <1>2, <1>3

(***************************************************************************)
(* A call of AddFriend begins or ends: no acceptance and no deletion moves.*)
(***************************************************************************)
LEMMA AddingMoves ==
  ASSUME FriendsInv, NEW c \in FriendCallers, NEW y \in FriendCalls,
         friendCall' = [friendCall EXCEPT ![c] = y],
         y # NoFriendCall => y.user # y.friend,
         y.op \notin {"accept", "delete"}, friendCall[c].op \notin {"accept", "delete"},
         UNCHANGED uneven, friendFaults' \in 0..MaxFriendFaults, rows' \in 0..MaxFriendRows,
         friends' \subseteq FriendRows', IsFiniteSet(friends'),
         \A f, g \in friends' : f.id = g.id => f = g,
         \A u, v : Befriending(u, v)' = Befriending(u, v)
  PROVE  FriendsInv'
<1>1. /\ friendCall' \in [FriendCallers -> FriendCalls]
      /\ \A d \in FriendCallers : friendCall'[d] = IF d = c THEN y ELSE friendCall[d]
  BY FriendCallMoves DEF FriendsInv
<1>2. FriendTypes'
  BY <1>1 DEF FriendsInv, FriendTypes
<1>3. \A u, v : c \notin Accepting(u, v) /\ c \notin Deleting(u, v)
  BY DEF Accepting, Deleting
<1>4. \A u, v : Accepting(u, v)' = Accepting(u, v) /\ Deleting(u, v)' = Deleting(u, v)
  BY <1>1 DEF Accepting, Deleting
<1>5. \A op \in {"accept", "delete"} : Overlaps(op)' => Overlaps(op)
  BY <1>1 DEF Overlaps
<1>6. Owed => Owed'
  BY <1>4 DEF Owed
<1>7. HalfDeleted => HalfDeleted'
  BY <1>4 DEF HalfDeleted
<1>. QED  BY <1>2, <1>5, <1>6, <1>7 DEF FriendsInv

(***************************************************************************)
(* A new row has an id of its own.                                         *)
(***************************************************************************)
LEMMA RowIsInserted ==
  ASSUME FriendTypes, NEW u \in FriendUsers, NEW v \in FriendUsers, NEW s \in {Pending, Accepted},
         InsertRow(u, v, s)
  PROVE  /\ rows' \in 0..MaxFriendRows /\ friends' \subseteq FriendRows' /\ IsFiniteSet(friends')
         /\ \A f, g \in friends' : f.id = g.id => f = g
         /\ \A w, z : (w # u \/ z # v \/ s # Accepted) => Befriending(w, z)' = Befriending(w, z)
         /\ s = Accepted => Cardinality(Befriending(u, v)') = Cardinality(Befriending(u, v)) + 1
<1>1. PICK f : f = [id |-> rows + 1, user |-> u, friend |-> v, status |-> s]
  OBVIOUS
<1>2. rows < MaxFriendRows /\ rows' = rows + 1 /\ friends' = friends \cup {f} /\ rows \in Nat
  BY <1>1, FriendBounds DEF InsertRow, FriendTypes
<1>3. \A g \in friends : /\ g.id \in 1..rows /\ g.user \in FriendUsers /\ g.friend \in FriendUsers
                         /\ g.status \in {Pending, Accepted}
                         /\ g = [id |-> g.id, user |-> g.user, friend |-> g.friend, status |-> g.status]
  BY DEF FriendTypes, FriendRows
<1>4. f.id = rows + 1 /\ f.user = u /\ f.friend = v /\ f.status = s /\ f \notin friends
  <2>1. f.id = rows + 1 /\ f.user = u /\ f.friend = v /\ f.status = s
    BY <1>1
  <2>. QED  BY <1>2, <1>3, <2>1
<1>5. rows' \in 0..MaxFriendRows
  BY <1>2, FriendBounds
<1>6. friends' \subseteq FriendRows'
  <2>1. \A g \in friends : g \in FriendRows'
    <3>1. \A n \in 1..rows : n \in 1..(rows + 1)
      BY <1>2
    <3>2. friends \subseteq [id : 1..rows, user : FriendUsers, friend : FriendUsers, status : {Pending, Accepted}]
      BY DEF FriendTypes, FriendRows
    <3>. QED  BY <1>2, <3>1, <3>2 DEF FriendRows
  <2>2. f \in FriendRows'
    BY <1>1, <1>2 DEF FriendRows
  <2>. QED  BY <1>2, <2>1, <2>2
<1>7. IsFiniteSet(friends')
  BY <1>2, FS_AddElement DEF FriendTypes
<1>8. \A g, h \in friends' : g.id = h.id => g = h
  BY <1>2, <1>3, <1>4 DEF FriendTypes
<1>9. \A w, z : (w # u \/ z # v \/ s # Accepted) => Befriending(w, z)' = Befriending(w, z)
  BY <1>2, <1>4 DEF Befriending, Rows
<1>10. ASSUME s = Accepted
       PROVE  Cardinality(Befriending(u, v)') = Cardinality(Befriending(u, v)) + 1
  <2>1. Befriending(u, v)' = Befriending(u, v) \cup {f} /\ f \notin Befriending(u, v)
    BY <1>2, <1>4, <1>10 DEF Befriending, Rows
  <2>2. IsFiniteSet(Befriending(u, v))
    BY FriendNumbers DEF FriendTypes
  <2>. QED  BY <2>1, <2>2, FS_AddElement
<1>. QED  BY <1>5, <1>6, <1>7, <1>8, <1>9, <1>10

(***************************************************************************)
(* AcceptFriend accepts one row, and owes the other direction one.         *)
(***************************************************************************)
LEMMA FriendAccepted ==
  ASSUME FriendsInv, NEW c \in FriendCallers, NEW u \in FriendUsers, NEW v \in FriendUsers,
         AcceptFriend(c, u, v)
  PROVE  FriendsInv'
<1>1. PICK y : y = [op |-> "accept", at |-> "insert", user |-> u, friend |-> v]
  OBVIOUS
<1>2. /\ y.op = "accept" /\ y.user = u /\ y.friend = v /\ u # v /\ y \in FriendCalls
      /\ friendCall[c] = NoFriendCall /\ friendCall' = [friendCall EXCEPT ![c] = y]
      /\ UNCHANGED <<rows, friendFaults>> /\ y.at = "insert"
  BY <1>1 DEF AcceptFriend, FriendCalls
<1>3. /\ friendCall' \in [FriendCallers -> FriendCalls]
      /\ \A d \in FriendCallers : friendCall'[d] = IF d = c THEN y ELSE friendCall[d]
  BY <1>2, FriendCallMoves DEF FriendsInv
<1>4. uneven' \in BOOLEAN /\ (~uneven' => ~uneven /\ Rows(v, u, {Pending}) # {} /\ ~Overlaps("delete"))
  BY DEF AcceptFriend, FriendsInv, FriendTypes
<1>5. ASSUME NEW f \in Rows(v, u, {Pending}), friends' = (friends \ {f}) \cup {[f EXCEPT !.status = Accepted]}
      PROVE  FriendsInv'
  <2>1. PICK g : g = [f EXCEPT !.status = Accepted]
    OBVIOUS
  <2>2. f \in friends /\ f.user = v /\ f.friend = u /\ f.status = Pending /\ f \in FriendRows
    BY DEF Rows, FriendsInv, FriendTypes
  <2>3. /\ g \in FriendRows /\ g.id = f.id /\ g.user = v /\ g.friend = u /\ g.status = Accepted
        /\ friends' = (friends \ {f}) \cup {g} /\ Pending # Accepted
    BY <1>5, <2>1, <2>2 DEF FriendRows, Pending, Accepted
  <2>4. g \notin friends
    BY <2>2, <2>3 DEF FriendsInv, FriendTypes
  <2>5. IsFiniteSet(friends')
    <3>1. IsFiniteSet(friends) /\ friends \ {f} \subseteq friends
      BY DEF FriendsInv, FriendTypes
    <3>2. IsFiniteSet(friends \ {f})
      BY <3>1, FS_Subset
    <3>. QED  BY <2>3, <3>2, FS_AddElement
  <2>6. FriendTypes'
    <3>1. FriendRows' = FriendRows
      BY <1>2 DEF FriendRows
    <3>2. friends' \subseteq FriendRows' /\ \A h, k \in friends' : h.id = k.id => h = k
      BY <2>2, <2>3, <3>1 DEF FriendsInv, FriendTypes
    <3>3. \A d \in FriendCallers : friendCall'[d] # NoFriendCall => friendCall'[d].user # friendCall'[d].friend
      BY <1>2, <1>3 DEF FriendsInv, FriendTypes
    <3>. QED  BY <1>2, <1>3, <1>4, <2>5, <3>2, <3>3 DEF FriendsInv, FriendTypes
  <2>. SUFFICES ASSUME ~uneven'
                PROVE  Owed' /\ HalfDeleted' /\ ~(Overlaps("accept") /\ Overlaps("delete"))'
    BY <2>6 DEF FriendsInv
  <2>7. ~Overlaps("delete") /\ Owed
    BY <1>4 DEF FriendsInv
  <2>8. \A d \in FriendCallers : friendCall[d].op # "delete" /\ friendCall'[d].op # "delete"
    BY <1>2, <1>3, <2>7 DEF Overlaps
  <2>9. ~Overlaps("delete")' /\ HalfDeleted'
    BY <2>8 DEF Overlaps, HalfDeleted, Deleting
  <2>10. \A w, z : (w # v \/ z # u) => Befriending(w, z)' = Befriending(w, z)
    BY <2>2, <2>3 DEF Befriending, Rows
  <2>11. Cardinality(Befriending(v, u)') = Cardinality(Befriending(v, u)) + 1
    <3>1. Befriending(v, u)' = Befriending(v, u) \cup {g} /\ g \notin Befriending(v, u)
      BY <2>2, <2>3, <2>4 DEF Befriending, Rows
    <3>2. IsFiniteSet(Befriending(v, u))
      BY FriendNumbers DEF FriendsInv, FriendTypes
    <3>. QED  BY <3>1, <3>2, FS_AddElement
  <2>12. \A w, z : c \notin Accepting(w, z)
    BY <1>2 DEF Accepting, NoFriendCall
  <2>13. \A w, z : (w # u \/ z # v) => Accepting(w, z)' = Accepting(w, z)
    BY <1>2, <1>3, <2>12 DEF Accepting
  <2>14. Cardinality(Accepting(u, v)') = Cardinality(Accepting(u, v)) + 1
    <3>1. Accepting(u, v)' = Accepting(u, v) \cup {c}
      BY <1>2, <1>3 DEF Accepting
    <3>2. IsFiniteSet(Accepting(u, v))
      BY FriendNumbers DEF FriendsInv, FriendTypes
    <3>. QED  BY <2>12, <3>1, <3>2, FS_AddElement
  <2>15. Owed'
    <3>. SUFFICES ASSUME NEW w \in FriendUsers, NEW z \in FriendUsers, w # z
                  PROVE  Cardinality(Befriending(w, z)') + Cardinality(Accepting(w, z)') =
                           Cardinality(Befriending(z, w)') + Cardinality(Accepting(z, w)')
      BY DEF Owed
    <3>1. Cardinality(Befriending(w, z)) + Cardinality(Accepting(w, z)) =
            Cardinality(Befriending(z, w)) + Cardinality(Accepting(z, w))
      BY <2>7, <2>8 DEF Owed, Deleting
    <3>2. /\ Cardinality(Befriending(w, z)) \in Nat /\ Cardinality(Accepting(w, z)) \in Nat
          /\ Cardinality(Befriending(z, w)) \in Nat /\ Cardinality(Accepting(z, w)) \in Nat
      BY FriendNumbers DEF FriendsInv, FriendTypes
    <3>3. CASE w = u /\ z = v
      <4>1. Befriending(u, v)' = Befriending(u, v) /\ Accepting(v, u)' = Accepting(v, u)
        BY <1>2, <2>10, <2>13
      <4>. QED  BY <2>11, <2>14, <3>1, <3>2, <3>3, <4>1
    <3>4. CASE w = v /\ z = u
      <4>1. Befriending(u, v)' = Befriending(u, v) /\ Accepting(v, u)' = Accepting(v, u)
        BY <1>2, <2>10, <2>13
      <4>. QED  BY <2>11, <2>14, <3>1, <3>2, <3>4, <4>1
    <3>5. CASE ~(w = u /\ z = v) /\ ~(w = v /\ z = u)
      <4>1. /\ Befriending(w, z)' = Befriending(w, z) /\ Accepting(w, z)' = Accepting(w, z)
            /\ Befriending(z, w)' = Befriending(z, w) /\ Accepting(z, w)' = Accepting(z, w)
        BY <2>10, <2>13, <3>5
      <4>. QED  BY <3>1, <4>1
    <3>. QED  BY <3>3, <3>4, <3>5
  <2>. QED  BY <2>9, <2>15
<1>6. CASE UNCHANGED friends /\ Rows(v, u, {Pending}) = {}
  <2>1. uneven'
    BY <1>4, <1>6
  <2>2. FriendTypes'
    <3>1. FriendRows' = FriendRows
      BY <1>2 DEF FriendRows
    <3>2. \A d \in FriendCallers : friendCall'[d] # NoFriendCall => friendCall'[d].user # friendCall'[d].friend
      BY <1>2, <1>3 DEF FriendsInv, FriendTypes
    <3>. QED  BY <1>2, <1>3, <1>4, <1>6, <3>1, <3>2 DEF FriendsInv, FriendTypes
  <2>. QED  BY <2>1, <2>2 DEF FriendsInv
<1>. QED  BY <1>5, <1>6 DEF AcceptFriend

(***************************************************************************)
(* InsertFriend inserts the row that an acceptance owes, or a request.     *)
(***************************************************************************)
LEMMA FriendInserted ==
  ASSUME FriendsInv, NEW c \in FriendCallers, InsertFriend(c)
  PROVE  FriendsInv'
<1>1. PICK x : x = friendCall[c]
  OBVIOUS
<1>2. /\ friendCall' = [friendCall EXCEPT ![c] = NoFriendCall] /\ UNCHANGED <<uneven, friendFaults>>
      /\ InsertRow(x.user, x.friend, IF x.op = "add" THEN Pending ELSE Accepted) /\ x.at = "insert"
  BY <1>1 DEF InsertFriend, FriendReturns
<1>3. x \in [op : {"add", "accept"}, at : {"insert"}, user : FriendUsers, friend : FriendUsers]
      /\ x.user # x.friend
  <2>1. x \in FriendCalls /\ x # NoFriendCall => x.user # x.friend
    BY <1>1 DEF FriendsInv, FriendTypes
  <2>2. x \in FriendCalls
    BY <1>1 DEF FriendsInv, FriendTypes
  <2>3. x \in [op : {"add", "accept"}, at : {"insert"}, user : FriendUsers, friend : FriendUsers]
    BY <1>2, <2>2 DEF FriendCalls, NoFriendCall
  <2>. QED  BY <1>2, <2>1, <2>2, <2>3 DEF NoFriendCall
<1>4. PICK u \in FriendUsers, v \in FriendUsers : u = x.user /\ v = x.friend
  BY <1>3
<1>5. NoFriendCall \in FriendCalls /\ NoFriendCall.op = "none"
  BY DEF FriendCalls, NoFriendCall
<1>6. CASE x.op = "add"
  <2>1. InsertRow(u, v, Pending) /\ Pending # Accepted
    BY <1>2, <1>4, <1>6 DEF Pending, Accepted
  <2>2. /\ rows' \in 0..MaxFriendRows /\ friends' \subseteq FriendRows' /\ IsFiniteSet(friends')
        /\ \A f, g \in friends' : f.id = g.id => f = g
        /\ \A w, z : Befriending(w, z)' = Befriending(w, z)
    BY <2>1, RowIsInserted DEF FriendsInv
  <2>3. friendFaults' \in 0..MaxFriendFaults /\ friendCall[c].op \notin {"accept", "delete"}
    BY <1>1, <1>2, <1>6 DEF FriendsInv, FriendTypes
  <2>. QED  BY <1>2, <1>5, <2>2, <2>3, AddingMoves
<1>7. CASE x.op = "accept"
  <2>1. InsertRow(u, v, Accepted)
    BY <1>2, <1>4, <1>7
  <2>2. /\ rows' \in 0..MaxFriendRows /\ friends' \subseteq FriendRows' /\ IsFiniteSet(friends')
        /\ \A f, g \in friends' : f.id = g.id => f = g
        /\ \A w, z : (w # u \/ z # v) => Befriending(w, z)' = Befriending(w, z)
        /\ Cardinality(Befriending(u, v)') = Cardinality(Befriending(u, v)) + 1
    BY <2>1, RowIsInserted DEF FriendsInv
  <2>3. /\ friendCall' \in [FriendCallers -> FriendCalls]
        /\ \A d \in FriendCallers : friendCall'[d] = IF d = c THEN NoFriendCall ELSE friendCall[d]
    BY <1>2, <1>5, FriendCallMoves DEF FriendsInv
  <2>4. FriendTypes'
    BY <1>2, <2>2, <2>3 DEF FriendsInv, FriendTypes
  <2>. SUFFICES ASSUME ~uneven'
                PROVE  Owed' /\ HalfDeleted' /\ ~(Overlaps("accept") /\ Overlaps("delete"))'
    BY <2>4 DEF FriendsInv
  <2>5. \A d \in FriendCallers : friendCall[d].op # "delete" /\ friendCall'[d].op # "delete"
    BY <1>1, <1>2, <1>5, <1>7, <2>3 DEF FriendsInv, Overlaps
  <2>6. ~Overlaps("delete")' /\ HalfDeleted'
    BY <2>5 DEF Overlaps, HalfDeleted, Deleting
  <2>7. c \in Accepting(u, v) /\ \A w, z : (w # u \/ z # v) => c \notin Accepting(w, z)
    BY <1>1, <1>4, <1>7 DEF Accepting
  <2>8. \A w, z : (w # u \/ z # v) => Accepting(w, z)' = Accepting(w, z)
    BY <1>5, <2>3, <2>7 DEF Accepting
  <2>9. Cardinality(Accepting(u, v)') = Cardinality(Accepting(u, v)) - 1
    <3>1. Accepting(u, v)' = Accepting(u, v) \ {c}
      BY <1>5, <2>3 DEF Accepting
    <3>2. IsFiniteSet(Accepting(u, v))
      BY FriendNumbers DEF FriendsInv, FriendTypes
    <3>. QED  BY <2>7, <3>1, <3>2, FS_RemoveElement
  <2>10. Owed'
    <3>. SUFFICES ASSUME NEW w \in FriendUsers, NEW z \in FriendUsers, w # z
                  PROVE  Cardinality(Befriending(w, z)') + Cardinality(Accepting(w, z)') =
                           Cardinality(Befriending(z, w)') + Cardinality(Accepting(z, w)')
      BY DEF Owed
    <3>1. Cardinality(Befriending(w, z)) + Cardinality(Accepting(w, z)) =
            Cardinality(Befriending(z, w)) + Cardinality(Accepting(z, w))
      BY <1>2, <2>5 DEF FriendsInv, Owed, Deleting
    <3>2. /\ Cardinality(Befriending(w, z)) \in Nat /\ Cardinality(Accepting(w, z)) \in Nat
          /\ Cardinality(Befriending(z, w)) \in Nat /\ Cardinality(Accepting(z, w)) \in Nat
      BY FriendNumbers DEF FriendsInv, FriendTypes
    <3>3. CASE w = u /\ z = v
      <4>1. Befriending(v, u)' = Befriending(v, u) /\ Accepting(v, u)' = Accepting(v, u)
        BY <1>3, <1>4, <2>2, <2>8
      <4>. QED  BY <2>2, <2>9, <3>1, <3>2, <3>3, <4>1
    <3>4. CASE w = v /\ z = u
      <4>1. Befriending(v, u)' = Befriending(v, u) /\ Accepting(v, u)' = Accepting(v, u)
        BY <1>3, <1>4, <2>2, <2>8
      <4>. QED  BY <2>2, <2>9, <3>1, <3>2, <3>4, <4>1
    <3>5. CASE ~(w = u /\ z = v) /\ ~(w = v /\ z = u)
      <4>1. /\ Befriending(w, z)' = Befriending(w, z) /\ Accepting(w, z)' = Accepting(w, z)
            /\ Befriending(z, w)' = Befriending(z, w) /\ Accepting(z, w)' = Accepting(z, w)
        BY <2>2, <2>8, <3>5
      <4>. QED  BY <3>1, <4>1
    <3>. QED  BY <3>3, <3>4, <3>5
  <2>. QED  BY <2>6, <2>10
<1>. QED  BY <1>3, <1>6, <1>7

(***************************************************************************)
(* A deletion takes the only row there is in a direction, or changes one   *)
(* direction only.                                                         *)
(***************************************************************************)
LEMMA FriendDeleted ==
  ASSUME FriendsInv, NEW c \in FriendCallers, NEW u \in FriendUsers, NEW v \in FriendUsers, u # v,
         DeleteRow(u, v), UNCHANGED <<rows, friendFaults>>,
         \/ /\ friendCall[c] = NoFriendCall
            /\ friendCall' = [friendCall EXCEPT ![c] =
                 [op |-> "delete", at |-> "other", user |-> v, friend |-> u]]
         \/ /\ c \in Deleting(u, v) /\ friendCall' = [friendCall EXCEPT ![c] = NoFriendCall]
  PROVE  FriendsInv'
<1>1. friends' \subseteq friends /\ IsFiniteSet(friends')
  <2>1. friends' \subseteq friends
    BY DEF DeleteRow
  <2>. QED  BY <2>1, FS_Subset DEF FriendsInv, FriendTypes
<1>2. PICK y \in FriendCalls : /\ friendCall' = [friendCall EXCEPT ![c] = y]
                               /\ y # NoFriendCall => y.user # y.friend
                               /\ y.op \in {"none", "delete"}
                               /\ y.op = "delete" => y.user = v /\ y.friend = u
                               /\ y.op = "none" => c \in Deleting(u, v)
  <2>1. PICK z : z = [op |-> "delete", at |-> "other", user |-> v, friend |-> u]
    OBVIOUS
  <2>2. z \in FriendCalls /\ z.op = "delete" /\ z.user = v /\ z.friend = u
    BY <2>1 DEF FriendCalls
  <2>3. NoFriendCall \in FriendCalls /\ NoFriendCall.op = "none"
    BY DEF FriendCalls, NoFriendCall
  <2>. QED  BY <2>1, <2>2, <2>3
<1>3. /\ friendCall' \in [FriendCallers -> FriendCalls]
      /\ \A d \in FriendCallers : friendCall'[d] = IF d = c THEN y ELSE friendCall[d]
  BY <1>2, FriendCallMoves DEF FriendsInv
<1>4. uneven' \in BOOLEAN
      /\ (~uneven' => ~uneven /\ ~(Cardinality(Rows(u, v, {Pending, Accepted})) > 1) /\ ~Overlaps("accept"))
  BY DEF DeleteRow, FriendsInv, FriendTypes
<1>5. FriendTypes'
  <2>1. FriendRows' = FriendRows
    BY DEF FriendRows
  <2>2. \A d \in FriendCallers : friendCall'[d] # NoFriendCall => friendCall'[d].user # friendCall'[d].friend
    BY <1>2, <1>3 DEF FriendsInv, FriendTypes
  <2>. QED  BY <1>1, <1>3, <1>4, <2>1, <2>2 DEF FriendsInv, FriendTypes
<1>. SUFFICES ASSUME ~uneven'
              PROVE  Owed' /\ HalfDeleted' /\ ~(Overlaps("accept") /\ Overlaps("delete"))'
  BY <1>5 DEF FriendsInv
<1>6. ~Overlaps("accept") /\ ~Overlaps("accept")'
  BY <1>2, <1>3, <1>4 DEF Overlaps
<1>7. \A w, z : Accepting(w, z) = {} /\ Accepting(w, z)' = {}
  BY <1>6 DEF Overlaps, Accepting
<1>8. Befriending(u, v)' = {}
  <2>. DEFINE found == Rows(u, v, {Pending, Accepted})
  <2>1. found \subseteq friends /\ IsFiniteSet(found)
    <3>1. found \subseteq friends
      BY DEF Rows
    <3>. QED  BY <3>1, FS_Subset DEF FriendsInv, FriendTypes
  <2>2. CASE found = {}
    <3>1. friends' = friends
      BY <2>2 DEF DeleteRow
    <3>. QED  BY <2>2, <3>1 DEF Befriending, Rows
  <2>3. CASE found # {}
    <3>1. PICK f \in found : friends' = friends \ {f}
      BY <2>3 DEF DeleteRow
    <3>2. \A g \in found : g = f
      <4>. SUFFICES ASSUME NEW g \in found, g # f  PROVE FALSE
        OBVIOUS
      <4>. HIDE DEF found
      <4>1. IsFiniteSet(found \ {f}) /\ Cardinality(found \ {f}) = Cardinality(found) - 1
        BY <2>1, FS_RemoveElement
      <4>2. Cardinality(found \ {f}) = 0
        <5>1. Cardinality(found) \in Nat /\ Cardinality(found \ {f}) \in Nat
          BY <2>1, <4>1, FS_CardinalityType
        <5>2. ~(Cardinality(found) > 1)
          BY <1>4 DEF found
        <5>. QED  BY <4>1, <5>1, <5>2
      <4>3. found \ {f} = {}
        BY <4>1, <4>2, FS_EmptySet
      <4>. QED  BY <4>3
    <3>. QED  BY <3>1, <3>2 DEF Befriending, Rows
  <2>. QED  BY <2>2, <2>3
<1>9. \A w, z : Befriending(w, z)' \subseteq Befriending(w, z)
  BY <1>1 DEF Befriending, Rows
<1>10. \A w, z : (w # u \/ z # v) => Befriending(w, z)' = Befriending(w, z)
  BY DEF DeleteRow, Befriending, Rows
<1>11. \A w, z : Deleting(w, z) \ {c} \subseteq Deleting(w, z)'
                 /\ (Deleting(w, z)' # {} => Deleting(w, z) # {} \/ (w = v /\ z = u))
  BY <1>2, <1>3 DEF Deleting
<1>12. HalfDeleted'
  BY <1>4, <1>8, <1>9, <1>11 DEF FriendsInv, HalfDeleted
<1>13. Owed'
  <2>. SUFFICES ASSUME NEW w \in FriendUsers, NEW z \in FriendUsers, w # z,
                       Deleting(w, z)' = {}, Deleting(z, w)' = {}
                PROVE  Cardinality(Befriending(w, z)') = Cardinality(Befriending(z, w)')
    <3>1. \A w, z : Cardinality(Accepting(w, z)') = 0
      BY <1>7, FS_EmptySet
    <3>2. \A w, z : Cardinality(Befriending(w, z)') \in Nat
      <4>1. \A w, z : Befriending(w, z)' \subseteq friends'
        BY DEF Befriending, Rows
      <4>. QED  BY <1>1, <4>1, FS_Subset, FS_CardinalityType
    <3>. QED  BY <3>1, <3>2 DEF Owed
  <2>1. CASE (w = u /\ z = v) \/ (w = v /\ z = u)
    <3>1. y.op # "delete"
      <4>1. y.op = "delete" => c \in Deleting(v, u)'
        BY <1>2, <1>3 DEF Deleting
      <4>. QED  BY <2>1, <4>1
    <3>2. Befriending(v, u) = {}
      BY <1>2, <1>4, <3>1 DEF FriendsInv, HalfDeleted
    <3>. QED  BY <1>8, <1>9, <2>1, <3>2
  <2>2. CASE ~((w = u /\ z = v) \/ (w = v /\ z = u))
    <3>1. Befriending(w, z)' = Befriending(w, z) /\ Befriending(z, w)' = Befriending(z, w)
      BY <1>10, <2>2
    <3>2. Deleting(w, z) = {} /\ Deleting(z, w) = {}
      <4>1. c \notin Deleting(w, z) /\ c \notin Deleting(z, w)
        BY <2>2 DEF Deleting, NoFriendCall
      <4>. QED  BY <1>11, <4>1
    <3>3. Cardinality(Befriending(w, z)) + Cardinality(Accepting(w, z)) =
            Cardinality(Befriending(z, w)) + Cardinality(Accepting(z, w))
      BY <1>4, <3>2 DEF FriendsInv, Owed
    <3>4. Cardinality(Accepting(w, z)) = 0 /\ Cardinality(Accepting(z, w)) = 0
      BY <1>7, FS_EmptySet
    <3>5. Cardinality(Befriending(w, z)) \in Nat /\ Cardinality(Befriending(z, w)) \in Nat
      BY FriendNumbers DEF FriendsInv, FriendTypes
    <3>. QED  BY <3>1, <3>3, <3>4, <3>5
  <2>. QED  BY <2>1, <2>2
<1>. QED  BY <1>6, <1>12, <1>13

(***************************************************************************)
(* Every step of Friends keeps its invariant.                              *)
(***************************************************************************)
LEMMA FriendsSteps ==
  ASSUME FriendsInv, FriendsNext
  PROVE  FriendsInv'
<1>1. ASSUME NEW c \in FriendCallers, NEW u \in FriendUsers, NEW v \in FriendUsers, AddFriend(c, u, v)
      PROVE  FriendsInv'
  <2>1. PICK y : y = [op |-> "add", at |-> "insert", user |-> u, friend |-> v]
    OBVIOUS
  <2>2. /\ y.op = "add" /\ y \in FriendCalls /\ y.user # y.friend
        /\ friendCall[c].op = "none" /\ friendCall' = [friendCall EXCEPT ![c] = y]
        /\ UNCHANGED <<friends, rows, uneven>>
    BY <1>1, <2>1 DEF AddFriend, FriendCalls, NoFriendCall
  <2>3. friendFaults' \in 0..MaxFriendFaults
    BY <1>1, FriendBounds DEF AddFriend, FriendsInv, FriendTypes
  <2>4. /\ rows' \in 0..MaxFriendRows /\ friends' \subseteq FriendRows' /\ IsFiniteSet(friends')
        /\ \A f, g \in friends' : f.id = g.id => f = g
        /\ \A w, z : Befriending(w, z)' = Befriending(w, z)
    BY <2>2 DEF FriendsInv, FriendTypes, FriendRows, Befriending, Rows
  <2>. QED  BY <2>2, <2>3, <2>4, AddingMoves
<1>2. ASSUME NEW c \in FriendCallers, NEW u \in FriendUsers, NEW v \in FriendUsers, DeleteFriend(c, u, v)
      PROVE  FriendsInv'
  BY <1>2, FriendDeleted DEF DeleteFriend
<1>3. ASSUME NEW c \in FriendCallers, DeleteOther(c)
      PROVE  FriendsInv'
  <2>1. PICK x : x = friendCall[c]
    OBVIOUS
  <2>2. x \in FriendCalls /\ x.at = "other" /\ (x # NoFriendCall => x.user # x.friend)
    BY <1>3, <2>1 DEF DeleteOther, FriendsInv, FriendTypes
  <2>3. x \in [op : {"delete"}, at : {"other"}, user : FriendUsers, friend : FriendUsers]
        /\ x.user # x.friend
    BY <2>2 DEF FriendCalls, NoFriendCall
  <2>4. c \in Deleting(x.user, x.friend)
    BY <2>1, <2>3 DEF Deleting
  <2>5. DeleteRow(x.user, x.friend) /\ UNCHANGED <<rows, friendFaults>>
        /\ friendCall' = [friendCall EXCEPT ![c] = NoFriendCall]
    BY <1>3, <2>1 DEF DeleteOther, FriendReturns
  <2>6. x.user \in FriendUsers /\ x.friend \in FriendUsers /\ x.user # x.friend
    BY <2>3
  <2>. QED  BY <2>4, <2>5, <2>6, FriendDeleted
<1>4. ASSUME NEW c \in FriendCallers, FriendFails(c)
      PROVE  FriendsInv'
  <2>1. /\ friendCall' = [friendCall EXCEPT ![c] = NoFriendCall] /\ UNCHANGED <<friends, rows>>
        /\ NoFriendCall \in FriendCalls /\ NoFriendCall.op = "none"
    BY <1>4 DEF FriendFails, FriendReturns, FriendCalls, NoFriendCall
  <2>2. friendFaults' \in 0..MaxFriendFaults
    BY <1>4, FriendBounds DEF FriendFails, FriendsInv, FriendTypes
  <2>3. /\ rows' \in 0..MaxFriendRows /\ friends' \subseteq FriendRows' /\ IsFiniteSet(friends')
        /\ \A f, g \in friends' : f.id = g.id => f = g
        /\ \A w, z : Befriending(w, z)' = Befriending(w, z)
    BY <2>1 DEF FriendsInv, FriendTypes, FriendRows, Befriending, Rows
  <2>4. CASE friendCall[c].op \in {"accept", "delete"}
    <3>1. uneven' = TRUE
      BY <1>4, <2>4 DEF FriendFails
    <3>2. /\ friendCall' \in [FriendCallers -> FriendCalls]
          /\ \A d \in FriendCallers : friendCall'[d] = IF d = c THEN NoFriendCall ELSE friendCall[d]
      BY <2>1, FriendCallMoves DEF FriendsInv
    <3>3. FriendTypes'
      BY <2>2, <2>3, <3>1, <3>2 DEF FriendsInv, FriendTypes
    <3>. QED  BY <3>1, <3>3 DEF FriendsInv
  <2>5. CASE friendCall[c].op \notin {"accept", "delete"}
    <3>1. uneven' = uneven
      BY <1>4, <2>5 DEF FriendFails, FriendsInv, FriendTypes
    <3>. QED  BY <2>1, <2>2, <2>3, <2>5, <3>1, AddingMoves
  <2>. QED  BY <2>4, <2>5
<1>. QED  BY <1>1, <1>2, <1>3, <1>4, FriendAccepted, FriendInserted DEF FriendsNext

(***************************************************************************)
(* The invariant has the types and what FriendsOfEachOther says.           *)
(***************************************************************************)
LEMMA FriendsFollow == FriendsInv => FriendsTypeOK /\ FriendsOfEachOther
<1>. SUFFICES ASSUME FriendsInv  PROVE FriendsTypeOK /\ FriendsOfEachOther
  OBVIOUS
<1>1. FriendsTypeOK
  <2>1. \A c \in FriendCallers : friendCall[c].at \in {"idle", "insert", "other"}
    BY DEF FriendsInv, FriendTypes, FriendCalls, NoFriendCall
  <2>. QED  BY <2>1 DEF FriendsInv, FriendTypes, FriendRows, FriendsTypeOK
<1>2. FriendsOfEachOther
  <2>. SUFFICES ASSUME ~uneven, \A c \in FriendCallers : friendCall[c] = NoFriendCall,
                       NEW u \in FriendUsers, NEW v \in FriendUsers, u # v
                PROVE  Cardinality(Befriending(u, v)) = Cardinality(Befriending(v, u))
    BY DEF FriendsOfEachOther, Befriending
  <2>1. Deleting(u, v) = {} /\ Deleting(v, u) = {} /\ Accepting(u, v) = {} /\ Accepting(v, u) = {}
    BY DEF Deleting, Accepting, NoFriendCall
  <2>2. Cardinality(Accepting(u, v)) = 0 /\ Cardinality(Accepting(v, u)) = 0
    BY <2>1, FS_EmptySet
  <2>3. Cardinality(Befriending(u, v)) + Cardinality(Accepting(u, v)) =
          Cardinality(Befriending(v, u)) + Cardinality(Accepting(v, u))
    BY <2>1 DEF FriendsInv, Owed
  <2>4. Cardinality(Befriending(u, v)) \in Nat /\ Cardinality(Befriending(v, u)) \in Nat
    BY FriendNumbers DEF FriendsInv, FriendTypes
  <2>. QED  BY <2>2, <2>3, <2>4
<1>. QED  BY <1>1, <1>2

-----------------------------------------------------------------------------
(* Bans: what a call may hold, and the calls that will still write to the  *)
(* log of the administrators.                                              *)
BanCalls ==
  {NoBanCall} \cup [at : {"find", "insert", "log"}, duration : Durations, log : {"ban"}]
  \cup [at : {"update", "log"}, log : {"unban"}] \cup [at : {"log"}, log : {"kick", "notice"}]
Logging(l) == {c \in BanCallers : banCall[c].at = "log" /\ banCall[c].log = l}

BanTypes ==
  /\ banCall \in [BanCallers -> BanCalls] /\ banLogs \in [{"ban", "unban"} -> Nat]
  /\ banTime \in 0..MaxBanTime /\ raced \in BOOLEAN /\ banFaults \in 0..MaxBanFaults
(* The records are numbered in the order of their insertion.               *)
BanRecords ==
  /\ bans \subseteq Records /\ IsFiniteSet(bans) /\ Cardinality(bans) <= MaxBans
  /\ \A b \in bans : b.id <= Cardinality(bans)
  /\ \A b, d \in bans : b.id = d.id => b = d
(* Every action that is logged, or will be, has been carried out.          *)
BanLogsTold ==
  /\ banLogs["ban"] + Cardinality(Logging("ban")) <= Cardinality(bans)
  /\ banLogs["unban"] + Cardinality(Logging("unban")) <= Cardinality(bans \ Active)
(* A call that is about to insert a record has found none.                 *)
FoundNone ==
  ~raced => /\ \A b, d \in Active : b = d
            /\ (\E c \in BanCallers : banCall[c].at = "insert") => Active = {}
BansInv == BanTypes /\ BanRecords /\ BanLogsTold /\ FoundNone

(***************************************************************************)
(* Bans starts in its invariant.                                           *)
(***************************************************************************)
LEMMA BansStarts == BansInit => BansInv
<1>. SUFFICES ASSUME BansInit  PROVE BansInv
  OBVIOUS
<1>1. BanTypes
  <2>1. banCall \in [BanCallers -> BanCalls]
    BY DEF BansInit, BanCalls
  <2>2. banLogs \in [{"ban", "unban"} -> Nat]
    BY DEF BansInit
  <2>3. banTime \in 0..MaxBanTime /\ raced \in BOOLEAN /\ banFaults \in 0..MaxBanFaults
    <3>1. banTime = 0 /\ raced = FALSE /\ banFaults = 0
      BY DEF BansInit
    <3>2. 0 \in 0..MaxBanTime /\ 0 \in 0..MaxBanFaults
      BY BanBounds
    <3>. QED  BY <3>1, <3>2, Zenon
  <2>. QED  BY <2>1, <2>2, <2>3 DEF BanTypes
<1>2. bans = {} /\ IsFiniteSet(bans) /\ Cardinality(bans) = 0 /\ Active = {}
  BY FS_EmptySet DEF BansInit, Active
<1>3. BanRecords
  BY <1>2, BanBounds DEF BanRecords
<1>4. \A l : Logging(l) = {}
  BY DEF BansInit, Logging, NoBanCall
<1>5. BanLogsTold
  <2>1. bans \ Active = {} /\ Cardinality({}) = 0
    BY <1>2, FS_EmptySet
  <2>. QED  BY <1>2, <1>4, <2>1 DEF BanLogsTold, BansInit
<1>. QED  BY <1>1, <1>2, <1>3, <1>5 DEF BansInv, FoundNone

(***************************************************************************)
(* The steps of Bans keep the types.                                       *)
(***************************************************************************)
LEMMA BansKeepTypes ==
  ASSUME BanTypes, BansNext
  PROVE  BanTypes'
<1>1. NoBanCall \in BanCalls
  BY DEF BanCalls
<1>2. ASSUME NEW c \in BanCallers, NEW d \in Durations, NEW cmd \in BOOLEAN, BanRequest(c, d, cmd)
      PROVE  BanTypes'
  <2>1. [at |-> "find", duration |-> d, log |-> "ban"] \in BanCalls
    BY DEF BanCalls
  <2>2. banCall' \in [BanCallers -> BanCalls]
    BY <1>2, <2>1 DEF BanRequest, BanTypes
  <2>. QED  BY <1>2, <2>2 DEF BanRequest, BanTypes
<1>3. ASSUME NEW c \in BanCallers, NEW cmd \in BOOLEAN, UnbanRequest(c, cmd)
      PROVE  BanTypes'
  <2>1. [at |-> "update", log |-> "unban"] \in BanCalls
    BY DEF BanCalls
  <2>2. banCall' \in [BanCallers -> BanCalls]
    BY <1>3, <2>1 DEF UnbanRequest, BanTypes
  <2>. QED  BY <1>3, <2>2 DEF UnbanRequest, BanTypes
<1>4. ASSUME NEW c \in BanCallers, FindActive(c)
      PROVE  BanTypes'
  <2>1. banCall[c] \in BanCalls /\ banCall[c].at = "find"
    BY <1>4 DEF FindActive, BanTypes
  <2>2. [banCall[c] EXCEPT !.at = "insert"] \in BanCalls
    BY <2>1 DEF BanCalls, NoBanCall
  <2>3. banCall' \in [BanCallers -> BanCalls]
    BY <1>1, <1>4, <2>2 DEF FindActive, BanGoes, BanReturns, BanTypes
  <2>. QED  BY <1>4, <2>3 DEF FindActive, BanTypes
<1>5. ASSUME NEW c \in BanCallers, InsertBan(c)
      PROVE  BanTypes'
  <2>1. banCall[c] \in BanCalls /\ banCall[c].at = "insert"
    BY <1>5 DEF InsertBan, BanTypes
  <2>2. [banCall[c] EXCEPT !.at = "log"] \in BanCalls
    BY <2>1 DEF BanCalls, NoBanCall
  <2>3. banCall' \in [BanCallers -> BanCalls]
    BY <1>5, <2>2 DEF InsertBan, BanGoes, BanTypes
  <2>. QED  BY <1>5, <2>3 DEF InsertBan, BanTypes
<1>6. ASSUME NEW c \in BanCallers, UnbanUser(c)
      PROVE  BanTypes'
  <2>1. banCall[c] \in BanCalls /\ banCall[c].at = "update"
    BY <1>6 DEF UnbanUser, BanTypes
  <2>2. [banCall[c] EXCEPT !.at = "log"] \in BanCalls
    BY <2>1 DEF BanCalls, NoBanCall
  <2>3. banCall' \in [BanCallers -> BanCalls]
    BY <1>1, <1>6, <2>2 DEF UnbanUser, BanGoes, BanReturns, BanTypes
  <2>. QED  BY <1>6, <2>3 DEF UnbanUser, BanTypes
<1>7. ASSUME NEW c \in BanCallers, KickUser(c) \/ SendNotice(c)
      PROVE  BanTypes'
  <2>1. [at |-> "log", log |-> "kick"] \in BanCalls /\ [at |-> "log", log |-> "notice"] \in BanCalls
    BY DEF BanCalls
  <2>2. banCall' \in [BanCallers -> BanCalls]
    BY <1>7, <2>1 DEF KickUser, SendNotice, LogOnly, BanTypes
  <2>. QED  BY <1>7, <2>2 DEF KickUser, SendNotice, LogOnly, BanTypes
<1>8. ASSUME NEW c \in BanCallers, LogGMAction(c)
      PROVE  BanTypes'
  <2>1. banCall' \in [BanCallers -> BanCalls]
    BY <1>1, <1>8 DEF LogGMAction, BanReturns, BanTypes
  <2>2. banLogs' \in [{"ban", "unban"} -> Nat]
    BY <1>8 DEF LogGMAction, BanTypes
  <2>. QED  BY <1>8, <2>1, <2>2 DEF LogGMAction, BanTypes
<1>9. ASSUME NEW c \in BanCallers, BanFails(c)
      PROVE  BanTypes'
  <2>1. banCall' \in [BanCallers -> BanCalls]
    BY <1>1, <1>9 DEF BanFails, BanReturns, BanTypes
  <2>. QED  BY <1>9, <2>1, BanBounds DEF BanFails, BanTypes
<1>10. CASE BanTick
  BY <1>10, BanBounds DEF BanTick, BanTypes
<1>. QED  BY <1>2, <1>3, <1>4, <1>5, <1>6, <1>7, <1>8, <1>9, <1>10 DEF BansNext

(***************************************************************************)
(* A new record gets a number of its own; one that is lifted keeps it.     *)
(***************************************************************************)
LEMMA BanInserted ==
  ASSUME BansInv, NEW c \in BanCallers, InsertBan(c)
  PROVE  /\ BanRecords' /\ Cardinality(bans') = Cardinality(bans) + 1
         /\ bans' \ Active' = bans \ Active
         /\ Active = {} => \A b, d \in Active' : b = d
<1>. DEFINE n == [id |-> Cardinality(bans) + 1, active |-> TRUE,
                  until |-> IF banCall[c].duration = Forever THEN Forever
                            ELSE banTime + banCall[c].duration]
<1>1. bans' = bans \cup {n} /\ Cardinality(bans) < MaxBans
  BY DEF InsertBan
<1>2. Cardinality(bans) \in Nat
  BY FS_CardinalityType DEF BansInv, BanRecords
<1>3. n \in Records
  <2>1. banCall[c].duration \in Durations
    BY DEF BansInv, BanTypes, BanCalls, NoBanCall, InsertBan
  <2>2. banTime \in 0..MaxBanTime
    BY DEF BansInv, BanTypes
  <2>3. n.until \in 0..Forever
    BY <2>1, <2>2, BanBounds DEF Durations, Forever
  <2>4. Cardinality(bans) + 1 \in 1..MaxBans
    BY <1>1, <1>2, BanBounds
  <2>. QED  BY <2>3, <2>4 DEF Records
<1>4. n.id = Cardinality(bans) + 1 /\ n.active
  OBVIOUS
<1>. HIDE DEF n
<1>5. \A b \in bans : b.id \in Nat /\ b.id <= Cardinality(bans)
  BY DEF BansInv, BanRecords, Records
<1>6. n \notin bans
  BY <1>2, <1>4, <1>5
<1>7. IsFiniteSet(bans') /\ Cardinality(bans') = Cardinality(bans) + 1
  BY <1>1, <1>6, FS_AddElement DEF BansInv, BanRecords
<1>8. BanRecords'
  <2>1. bans' \subseteq Records /\ Cardinality(bans') <= MaxBans
    BY <1>1, <1>2, <1>3, <1>7, BanBounds DEF BansInv, BanRecords
  <2>2. \A b \in bans' : b.id <= Cardinality(bans')
    BY <1>1, <1>2, <1>4, <1>5, <1>7
  <2>3. \A b, d \in bans' : b.id = d.id => b = d
    BY <1>1, <1>2, <1>4, <1>5 DEF BansInv, BanRecords
  <2>. QED  BY <1>7, <2>1, <2>2, <2>3 DEF BanRecords
<1>9. bans' \ Active' = bans \ Active /\ Active' = Active \cup {n}
  BY <1>1, <1>4 DEF Active
<1>. QED  BY <1>7, <1>8, <1>9

(***************************************************************************)
(* An unban makes one active record inactive.                              *)
(***************************************************************************)
LEMMA BanLifted ==
  ASSUME BansInv, NEW b \in Active, bans' = (bans \ {b}) \cup {[b EXCEPT !.active = FALSE]}
  PROVE  /\ BanRecords' /\ Cardinality(bans') = Cardinality(bans)
         /\ Cardinality(bans' \ Active') = Cardinality(bans \ Active) + 1
         /\ Active' \subseteq Active
<1>. DEFINE n == [b EXCEPT !.active = FALSE]
<1>1. b \in bans /\ b \in Records /\ b.active
  BY DEF Active, BansInv, BanRecords
<1>2. n \in Records /\ n.id = b.id /\ ~n.active
  BY <1>1 DEF Records
<1>. HIDE DEF n
<1>3. bans' = (bans \ {b}) \cup {n}
  BY DEF n
<1>4. n \notin bans
  BY <1>1, <1>2 DEF BansInv, BanRecords
<1>5. IsFiniteSet(bans) /\ Cardinality(bans) \in Nat
  BY FS_CardinalityType DEF BansInv, BanRecords
<1>6. IsFiniteSet(bans \ {b}) /\ Cardinality(bans \ {b}) = Cardinality(bans) - 1
  BY <1>1, <1>5, FS_RemoveElement
<1>7. IsFiniteSet(bans') /\ Cardinality(bans') = Cardinality(bans)
  <2>. DEFINE others == bans \ {b}
  <2>1. /\ n \notin others /\ bans' = others \cup {n}
        /\ IsFiniteSet(others) /\ Cardinality(others) = Cardinality(bans) - 1
    BY <1>3, <1>4, <1>6
  <2>. HIDE DEF others
  <2>2. IsFiniteSet(others \cup {n}) /\ Cardinality(others \cup {n}) = Cardinality(others) + 1
    BY <2>1, FS_AddElement
  <2>3. IsFiniteSet(bans') /\ Cardinality(bans') = Cardinality(others) + 1
    BY <2>1, <2>2, Zenon
  <2>4. Cardinality(others) = Cardinality(bans) - 1
    BY <2>1
  <2>. QED  BY <1>5, <2>3, <2>4
<1>8. BanRecords'
  <2>1. bans' \subseteq Records /\ Cardinality(bans') <= MaxBans
    BY <1>2, <1>3, <1>7 DEF BansInv, BanRecords
  <2>2. \A d \in bans' : d.id <= Cardinality(bans')
    BY <1>1, <1>2, <1>3, <1>7 DEF BansInv, BanRecords
  <2>3. \A d, e \in bans' : d.id = e.id => d = e
    BY <1>1, <1>2, <1>3 DEF BansInv, BanRecords
  <2>. QED  BY <1>7, <2>1, <2>2, <2>3 DEF BanRecords
<1>9. Active' = Active \ {b} /\ bans' \ Active' = (bans \ Active) \cup {n}
  BY <1>1, <1>2, <1>3 DEF Active
<1>10. Cardinality(bans' \ Active') = Cardinality(bans \ Active) + 1
  <2>1. IsFiniteSet(bans \ Active) /\ n \notin bans \ Active
    BY <1>4, <1>5, FS_Subset
  <2>. QED  BY <1>9, <2>1, FS_AddElement
<1>. QED  BY <1>7, <1>8, <1>9, <1>10

(***************************************************************************)
(* How many calls will write to the log, when one of them moves.           *)
(***************************************************************************)
LEMMA LoggingMoves ==
  ASSUME BanTypes, NEW c \in BanCallers, NEW y, banCall' = [banCall EXCEPT ![c] = y], NEW l
  PROVE  /\ Cardinality(Logging(l)) \in Nat /\ Cardinality(Logging(l)') \in Nat
         /\ ~(y.at = "log" /\ y.log = l) => Cardinality(Logging(l)') <= Cardinality(Logging(l))
         /\ Cardinality(Logging(l)') <= Cardinality(Logging(l)) + 1
         /\ (banCall[c].at = "log" /\ banCall[c].log = l /\ y.at # "log") =>
              Cardinality(Logging(l)') = Cardinality(Logging(l)) - 1
<1>. DEFINE P == Logging(l)
<1>1. P \subseteq BanCallers /\ IsFiniteSet(P) /\ Cardinality(P) \in Nat
  <2>1. P \subseteq BanCallers
    BY DEF Logging
  <2>. QED  BY <2>1, BanBounds, FS_Subset, FS_CardinalityType
<1>2. Logging(l)' = IF y.at = "log" /\ y.log = l THEN P \cup {c} ELSE P \ {c}
  BY DEF Logging, BanTypes
<1>3. (banCall[c].at = "log" /\ banCall[c].log = l) => c \in P
  BY DEF Logging
<1>. HIDE DEF P
<1>4. /\ Cardinality(P \cup {c}) = (IF c \in P THEN Cardinality(P) ELSE Cardinality(P) + 1)
      /\ Cardinality(P \ {c}) = (IF c \in P THEN Cardinality(P) - 1 ELSE Cardinality(P))
      /\ IsFiniteSet(P \cup {c}) /\ IsFiniteSet(P \ {c})
  BY <1>1, FS_AddElement, FS_RemoveElement
<1>5. Cardinality(P \cup {c}) \in Nat /\ Cardinality(P \ {c}) \in Nat
  BY <1>4, FS_CardinalityType
<1>. QED  BY <1>1, <1>2, <1>3, <1>4, <1>5 DEF P

(***************************************************************************)
(* A call that begins, or ends without a record being changed.             *)
(***************************************************************************)
LEMMA BanCallMoves ==
  ASSUME BansInv, NEW c \in BanCallers, NEW y, banCall' = [banCall EXCEPT ![c] = y],
         UNCHANGED <<bans, banLogs, raced>>, y.at = "log" => y.log \notin {"ban", "unban"},
         y.at = "insert" => Active = {}
  PROVE  BanRecords' /\ BanLogsTold' /\ FoundNone'
<1>1. \A l \in {"ban", "unban"} :
        /\ Cardinality(Logging(l)) \in Nat /\ Cardinality(Logging(l)') \in Nat
        /\ Cardinality(Logging(l)') <= Cardinality(Logging(l))
  BY LoggingMoves DEF BansInv
<1>2. BanRecords' /\ Active' = Active
  BY DEF BansInv, BanRecords, Active
<1>3. BanLogsTold'
  <2>1. /\ Cardinality(bans) \in Nat /\ Cardinality(bans \ Active) \in Nat
        /\ banLogs["ban"] \in Nat /\ banLogs["unban"] \in Nat
    BY FS_Subset, FS_CardinalityType DEF BansInv, BanRecords, BanTypes
  <2>2. /\ Cardinality(Logging("ban")') <= Cardinality(Logging("ban"))
        /\ Cardinality(Logging("unban")') <= Cardinality(Logging("unban"))
        /\ Cardinality(Logging("ban")) \in Nat /\ Cardinality(Logging("ban")') \in Nat
        /\ Cardinality(Logging("unban")) \in Nat /\ Cardinality(Logging("unban")') \in Nat
    BY <1>1
  <2>3. /\ banLogs["ban"] + Cardinality(Logging("ban")') <= Cardinality(bans)
        /\ banLogs["unban"] + Cardinality(Logging("unban")') <= Cardinality(bans \ Active)
    BY <2>1, <2>2 DEF BansInv, BanLogsTold
  <2>. QED  BY <1>2, <2>3 DEF BanLogsTold
<1>4. FoundNone'
  <2>1. \A d \in BanCallers : banCall'[d].at = "insert" => banCall[d].at = "insert" \/ Active = {}
    BY DEF BansInv, BanTypes
  <2>. QED  BY <1>2, <2>1 DEF BansInv, FoundNone
<1>. QED  BY <1>2, <1>3, <1>4

(***************************************************************************)
(* Every step of Bans keeps its invariant.                                 *)
(***************************************************************************)
LEMMA BansSteps ==
  ASSUME BansInv, BansNext
  PROVE  BansInv'
<1>1. BanTypes'
  BY BansKeepTypes DEF BansInv
<1>2. /\ Cardinality(bans) \in Nat /\ Cardinality(bans \ Active) \in Nat
      /\ banLogs["ban"] \in Nat /\ banLogs["unban"] \in Nat
  BY FS_Subset, FS_CardinalityType DEF BansInv, BanRecords, BanTypes
<1>3. /\ banLogs["ban"] + Cardinality(Logging("ban")) <= Cardinality(bans)
      /\ banLogs["unban"] + Cardinality(Logging("unban")) <= Cardinality(bans \ Active)
  BY DEF BansInv, BanLogsTold
<1>. SUFFICES BanRecords' /\ BanLogsTold' /\ FoundNone'
  BY <1>1 DEF BansInv
<1>4. ASSUME NEW c \in BanCallers, NEW d \in Durations, NEW cmd \in BOOLEAN, BanRequest(c, d, cmd)
      PROVE  BanRecords' /\ BanLogsTold' /\ FoundNone'
  <2>. DEFINE y == [at |-> "find", duration |-> d, log |-> "ban"]
  <2>1. banCall' = [banCall EXCEPT ![c] = y] /\ UNCHANGED <<bans, banLogs, raced>>
        /\ y.at = "find"
    BY <1>4 DEF BanRequest
  <2>. HIDE DEF y
  <2>. QED  BY <2>1, BanCallMoves
<1>5. ASSUME NEW c \in BanCallers, NEW cmd \in BOOLEAN, UnbanRequest(c, cmd)
      PROVE  BanRecords' /\ BanLogsTold' /\ FoundNone'
  <2>. DEFINE y == [at |-> "update", log |-> "unban"]
  <2>1. banCall' = [banCall EXCEPT ![c] = y] /\ UNCHANGED <<bans, banLogs, raced>>
        /\ y.at = "update"
    BY <1>5 DEF UnbanRequest
  <2>. HIDE DEF y
  <2>. QED  BY <2>1, BanCallMoves
<1>6. ASSUME NEW c \in BanCallers, FindActive(c)
      PROVE  BanRecords' /\ BanLogsTold' /\ FoundNone'
  <2>1. CASE Active = {}
    <3>1. PICK y : y = [banCall[c] EXCEPT !.at = "insert"]
      OBVIOUS
    <3>2. banCall[c] \in BanCalls /\ banCall[c].at = "find"
      BY <1>6 DEF FindActive, BansInv, BanTypes
    <3>3. y.at = "insert"
      BY <3>1, <3>2 DEF BanCalls, NoBanCall
    <3>4. banCall' = [banCall EXCEPT ![c] = y] /\ UNCHANGED <<bans, banLogs, raced>>
      BY <1>6, <2>1, <3>1 DEF FindActive, BanGoes
    <3>. QED  BY <2>1, <3>3, <3>4, BanCallMoves
  <2>2. CASE Active # {}
    <3>1. banCall' = [banCall EXCEPT ![c] = NoBanCall] /\ UNCHANGED <<bans, banLogs, raced>>
      BY <1>6, <2>2 DEF FindActive, BanReturns
    <3>. QED  BY <3>1, BanCallMoves DEF NoBanCall
  <2>. QED  BY <2>1, <2>2
<1>7. ASSUME NEW c \in BanCallers, InsertBan(c)
      PROVE  BanRecords' /\ BanLogsTold' /\ FoundNone'
  <2>1. PICK y : y = [banCall[c] EXCEPT !.at = "log"]
    OBVIOUS
  <2>2. y.at = "log" /\ y.log = "ban" /\ banCall[c].at = "insert"
    BY <1>7, <2>1 DEF InsertBan, BansInv, BanTypes, BanCalls, NoBanCall
  <2>3. banCall' = [banCall EXCEPT ![c] = y] /\ UNCHANGED banLogs
    BY <1>7, <2>1 DEF InsertBan, BanGoes
  <2>4. /\ BanRecords' /\ Cardinality(bans') = Cardinality(bans) + 1
        /\ bans' \ Active' = bans \ Active
        /\ Active = {} => \A b, d \in Active' : b = d
    BY <1>7, BanInserted
  <2>5. BanLogsTold'
    <3>1. /\ Cardinality(Logging("ban")') <= Cardinality(Logging("ban")) + 1
          /\ Cardinality(Logging("unban")') <= Cardinality(Logging("unban"))
          /\ Cardinality(Logging("ban")) \in Nat /\ Cardinality(Logging("ban")') \in Nat
          /\ Cardinality(Logging("unban")) \in Nat /\ Cardinality(Logging("unban")') \in Nat
      BY <2>2, <2>3, LoggingMoves DEF BansInv
    <3>2. /\ banLogs["ban"] + Cardinality(Logging("ban")') <= Cardinality(bans')
          /\ banLogs["unban"] + Cardinality(Logging("unban")') <= Cardinality(bans' \ Active')
      <4>. DEFINE done == Cardinality(bans \ Active)
      <4>1. done \in Nat /\ banLogs["unban"] + Cardinality(Logging("unban")) <= done
            /\ Cardinality(bans' \ Active') = done
        BY <1>2, <1>3, <2>4
      <4>. HIDE DEF done
      <4>. QED  BY <1>2, <1>3, <2>4, <3>1, <4>1
    <3>. QED  BY <2>3, <3>2 DEF BanLogsTold
  <2>6. FoundNone'
    <3>. SUFFICES ASSUME ~raced'
                  PROVE  (\A b, d \in Active' : b = d) /\ ~\E d \in BanCallers : banCall'[d].at = "insert"
      BY DEF FoundNone
    <3>1. ~raced /\ \A d \in BanCallers \ {c} : banCall[d].at # "insert"
      BY <1>7 DEF InsertBan
    <3>2. Active = {}
      BY <2>2, <3>1 DEF BansInv, FoundNone
    <3>3. \A d \in BanCallers : banCall'[d].at # "insert"
      BY <2>2, <2>3, <3>1 DEF BansInv, BanTypes
    <3>. QED  BY <2>4, <3>2, <3>3
  <2>. QED  BY <2>4, <2>5, <2>6
<1>8. ASSUME NEW c \in BanCallers, UnbanUser(c)
      PROVE  BanRecords' /\ BanLogsTold' /\ FoundNone'
  <2>1. CASE Active = {} /\ BanReturns(c) /\ UNCHANGED bans
    BY <1>8, <2>1, BanCallMoves DEF UnbanUser, BanReturns, NoBanCall
  <2>2. ASSUME NEW b \in Active, bans' = (bans \ {b}) \cup {[b EXCEPT !.active = FALSE]}, BanGoes(c, "log")
        PROVE  BanRecords' /\ BanLogsTold' /\ FoundNone'
    <3>1. PICK y : y = [banCall[c] EXCEPT !.at = "log"]
      OBVIOUS
    <3>2. y.at = "log" /\ y.log = "unban"
      BY <1>8, <3>1 DEF UnbanUser, BansInv, BanTypes, BanCalls, NoBanCall
    <3>3. banCall' = [banCall EXCEPT ![c] = y] /\ UNCHANGED <<banLogs, raced>>
      BY <1>8, <2>2, <3>1 DEF UnbanUser, BanGoes
    <3>4. /\ BanRecords' /\ Cardinality(bans') = Cardinality(bans)
          /\ Cardinality(bans' \ Active') = Cardinality(bans \ Active) + 1
          /\ Active' \subseteq Active
      BY <2>2, BanLifted
    <3>5. BanLogsTold'
      <4>1. /\ Cardinality(Logging("ban")') <= Cardinality(Logging("ban"))
            /\ Cardinality(Logging("unban")') <= Cardinality(Logging("unban")) + 1
            /\ Cardinality(Logging("ban")) \in Nat /\ Cardinality(Logging("ban")') \in Nat
            /\ Cardinality(Logging("unban")) \in Nat /\ Cardinality(Logging("unban")') \in Nat
        BY <3>2, <3>3, LoggingMoves DEF BansInv
      <4>2. /\ banLogs["ban"] + Cardinality(Logging("ban")') <= Cardinality(bans')
            /\ banLogs["unban"] + Cardinality(Logging("unban")') <= Cardinality(bans' \ Active')
        BY <1>2, <1>3, <3>4, <4>1
      <4>. QED  BY <3>3, <4>2 DEF BanLogsTold
    <3>6. FoundNone'
      <4>1. \A d \in BanCallers : banCall'[d].at = "insert" => banCall[d].at = "insert"
        BY <3>2, <3>3 DEF BansInv, BanTypes
      <4>. QED  BY <3>3, <3>4, <4>1 DEF BansInv, FoundNone
    <3>. QED  BY <3>4, <3>5, <3>6
  <2>. QED  BY <1>8, <2>1, <2>2 DEF UnbanUser
<1>9. ASSUME NEW c \in BanCallers, NEW l \in {"kick", "notice"}, LogOnly(c, l)
      PROVE  BanRecords' /\ BanLogsTold' /\ FoundNone'
  <2>. DEFINE y == [at |-> "log", log |-> l]
  <2>1. banCall' = [banCall EXCEPT ![c] = y] /\ UNCHANGED <<bans, banLogs, raced>>
        /\ y.at = "log" /\ y.log = l
    BY <1>9 DEF LogOnly
  <2>. HIDE DEF y
  <2>. QED  BY <2>1, BanCallMoves
<1>10. ASSUME NEW c \in BanCallers, LogGMAction(c)
       PROVE  BanRecords' /\ BanLogsTold' /\ FoundNone'
  <2>1. /\ banCall' = [banCall EXCEPT ![c] = NoBanCall] /\ UNCHANGED <<bans, raced>>
        /\ banCall[c].at = "log" /\ NoBanCall.at = "idle"
    BY <1>10 DEF LogGMAction, BanReturns, NoBanCall
  <2>2. BanRecords' /\ Active' = Active
    BY <2>1 DEF BansInv, BanRecords, Active
  <2>3. FoundNone'
    <3>1. \A d \in BanCallers : banCall'[d].at = "insert" => banCall[d].at = "insert"
      BY <2>1 DEF BansInv, BanTypes
    <3>. QED  BY <2>1, <2>2, <3>1 DEF BansInv, FoundNone
  <2>4. \A l \in {"ban", "unban"} :
          /\ Cardinality(Logging(l)) \in Nat /\ Cardinality(Logging(l)') \in Nat
          /\ Cardinality(Logging(l)') <= Cardinality(Logging(l))
          /\ banCall[c].log = l => Cardinality(Logging(l)') = Cardinality(Logging(l)) - 1
    BY <2>1, LoggingMoves DEF BansInv
  <2>5. \A l \in {"ban", "unban"} :
          banLogs'[l] = banLogs[l] + IF banCall[c].log = l THEN 1 ELSE 0
    BY <1>10 DEF LogGMAction, BansInv, BanTypes
  <2>6. ASSUME NEW l \in {"ban", "unban"}
        PROVE  banLogs'[l] + Cardinality(Logging(l)') <= banLogs[l] + Cardinality(Logging(l))
    <3>1. banLogs[l] \in Nat
      BY <1>2
    <3>. QED  BY <2>4, <2>5, <3>1
  <2>7. banLogs'["ban"] \in Nat /\ banLogs'["unban"] \in Nat
    BY <1>1 DEF BanTypes
  <2>8. BanLogsTold'
    <3>1. /\ banLogs'["ban"] + Cardinality(Logging("ban")') <= Cardinality(bans)
          /\ banLogs'["unban"] + Cardinality(Logging("unban")') <= Cardinality(bans \ Active)
      BY <1>2, <1>3, <2>4, <2>6, <2>7
    <3>. QED  BY <2>1, <2>2, <3>1 DEF BanLogsTold
  <2>. QED  BY <2>2, <2>3, <2>8
<1>11. ASSUME NEW c \in BanCallers, BanFails(c)
       PROVE  BanRecords' /\ BanLogsTold' /\ FoundNone'
  BY <1>11, BanCallMoves DEF BanFails, BanReturns, NoBanCall
<1>12. CASE BanTick
  <2>1. UNCHANGED <<bans, banLogs, banCall, raced>>
    BY <1>12 DEF BanTick
  <2>. QED  BY <2>1 DEF BansInv, BanRecords, BanLogsTold, FoundNone, Active, Logging
<1>. QED  BY <1>4, <1>5, <1>6, <1>7, <1>8, <1>9, <1>10, <1>11, <1>12 DEF BansNext, KickUser, SendNotice

(***************************************************************************)
(* The invariant has the types and what OneActiveBan says.                 *)
(***************************************************************************)
LEMMA OneBanFollows == BansInv => BansTypeOK /\ OneActiveBan
<1>. SUFFICES ASSUME BansInv  PROVE BansTypeOK /\ OneActiveBan
  OBVIOUS
<1>1. BansTypeOK
  <2>1. \A c \in BanCallers : banCall[c].at \in {"idle", "find", "insert", "update", "log"}
    BY DEF BansInv, BanTypes, BanCalls, NoBanCall
  <2>. QED  BY <2>1 DEF BansInv, BanTypes, BanRecords, BansTypeOK
<1>2. banLogs["ban"] <= Cardinality(bans) /\ banLogs["unban"] <= Cardinality(bans \ Active)
  <2>1. /\ Cardinality(bans) \in Nat /\ Cardinality(bans \ Active) \in Nat
        /\ banLogs["ban"] \in Nat /\ banLogs["unban"] \in Nat
    BY FS_Subset, FS_CardinalityType DEF BansInv, BanRecords, BanTypes
  <2>2. \A l : Cardinality(Logging(l)) \in Nat
    <3>1. \A l : Logging(l) \subseteq BanCallers
      BY DEF Logging
    <3>. QED  BY <3>1, BanBounds, FS_Subset, FS_CardinalityType
  <2>. QED  BY <2>1, <2>2 DEF BansInv, BanLogsTold
<1>3. ~raced => Cardinality(Active) <= 1
  <2>. SUFFICES ASSUME ~raced, Active # {}  PROVE Cardinality(Active) <= 1
    BY FS_EmptySet
  <2>1. PICK b \in Active : Active = {b}
    BY DEF BansInv, FoundNone
  <2>. QED  BY <2>1, FS_Singleton
<1>. QED  BY <1>1, <1>2, <1>3 DEF OneActiveBan

-----------------------------------------------------------------------------
(* Center: the processes of the nodes and the calls of CenterService.      *)
Procs == [at : {"off", "initializing", "running", "stopping"}, due : SUBSET (1..MaxOrders)]
Targets == [node : ClusterNodes, age : NotListed..Stale]
Orders == {NoOrder} \cup
  [at : {"send"}, request : {"shutdown", "restart", "broadcast"}, left : SUBSET Targets]

CenterTypes ==
  /\ proc \in [ClusterNodes -> Procs] /\ life \in [ClusterNodes -> 0..MaxLives]
  /\ listed \in [ClusterNodes -> NotListed..Stale]
  /\ order \in [CenterCallers -> Orders]
  /\ copy \in [1..MaxOrders -> {"none", "waiting", "busy", "done"}]
  /\ stops \subseteq [order : 1..MaxOrders, life : 1..MaxLives]
  /\ cutOff \subseteq 1..MaxOrders /\ centerFaults \in 0..MaxCenterFaults
(* A process that runs has been started.                                   *)
RunningLives == \A n \in ClusterNodes : Running(n) => life[n] # 0
(* The orders are numbered as they are sent; the queue has no others.      *)
OrdersNumbered ==
  /\ orders \subseteq [id : 1..MaxOrders, node : ClusterNodes, command : {"shutdown", "restart"}]
  /\ IsFiniteSet(orders) /\ \A x \in orders : x.id <= Cardinality(orders)
  /\ \A x, y \in orders : x.id = y.id => x = y
  /\ \A o \in 1..MaxOrders : copy[o] # "none" => \E x \in orders : x.id = o
(* The Stops that a node has begun are those of orders to it.              *)
DueAreSent == \A n \in ClusterNodes : \A o \in proc[n].due : \E x \in orders : x.id = o /\ x.node = n
(* An order that has begun a Stop is confirmed, and is not handled again.  *)
OnceHandled ==
  \A o \in (1..MaxOrders) \ cutOff :
    /\ copy[o] # "done" => /\ \A s \in stops : s.order # o
                           /\ \A n \in ClusterNodes : o \notin proc[n].due
    /\ \A n \in ClusterNodes : o \in proc[n].due => \A s \in stops : s.order # o
    /\ \A s, t \in stops : s.order = o /\ t.order = o => s = t
CenterInv == CenterTypes /\ RunningLives /\ OrdersNumbered /\ DueAreSent /\ OnceHandled

(***************************************************************************)
(* Center starts in its invariant.                                         *)
(***************************************************************************)
LEMMA CenterStarts == CenterInit => CenterInv
<1>. SUFFICES ASSUME CenterInit  PROVE CenterInv
  OBVIOUS
<1>1. proc \in [ClusterNodes -> Procs] /\ \A n \in ClusterNodes : proc[n].at = "off" /\ proc[n].due = {}
  BY DEF CenterInit, Procs
<1>2. CenterTypes
  <2>1. /\ life \in [ClusterNodes -> 0..MaxLives] /\ listed \in [ClusterNodes -> NotListed..Stale]
        /\ copy \in [1..MaxOrders -> {"none", "waiting", "busy", "done"}]
    BY CenterBounds DEF CenterInit, NotListed, Stale
  <2>2. order \in [CenterCallers -> Orders]
    BY DEF CenterInit, Orders
  <2>3. stops = {} /\ cutOff = {} /\ centerFaults = 0 /\ 0 \in 0..MaxCenterFaults
    BY CenterBounds DEF CenterInit
  <2>. QED  BY <1>1, <2>1, <2>2, <2>3 DEF CenterTypes
<1>3. OrdersNumbered
  <2>1. orders = {} /\ IsFiniteSet(orders)
    BY FS_EmptySet DEF CenterInit
  <2>2. \A o \in 1..MaxOrders : copy[o] = "none"
    BY DEF CenterInit
  <2>. QED  BY <2>1, <2>2 DEF OrdersNumbered
<1>4. stops = {}
  BY DEF CenterInit
<1>. QED  BY <1>1, <1>2, <1>3, <1>4 DEF CenterInv, RunningLives, Running, DueAreSent, OnceHandled

(***************************************************************************)
(* The steps of a node's process.                                          *)
(***************************************************************************)
LEMMA NodeSteps ==
  ASSUME CenterInv, NEW n \in ClusterNodes,
         \/ NodeStarts(n) \/ NodeRegisters(n) \/ Unlisted(n) \/ NodeEnds(n)
         \/ TakeOrder(n) \/ HandleOrder(n) \/ StopDue(n)
  PROVE  CenterInv'
<1>1. proc[n] \in Procs /\ life[n] \in 0..MaxLives
  BY DEF CenterInv, CenterTypes
<1>2. CASE NodeStarts(n) \/ NodeRegisters(n)
  <2>1. PICK at \in {"initializing", "running"} : proc' = [proc EXCEPT ![n].at = at]
    BY <1>2 DEF NodeStarts, NodeRegisters, ProcGoes
  <2>2. proc' \in [ClusterNodes -> Procs] /\ \A k \in ClusterNodes : proc'[k].due = proc[k].due
    BY <2>1 DEF CenterInv, CenterTypes, Procs
  <2>i. life \in [ClusterNodes -> 0..MaxLives] /\ listed \in [ClusterNodes -> NotListed..Stale]
    BY DEF CenterInv, CenterTypes
  <2>j. life' \in [ClusterNodes -> 0..MaxLives]
    BY <1>2, <2>i, CenterBounds DEF NodeStarts, NodeRegisters
  <2>k. listed' \in [ClusterNodes -> NotListed..Stale]
    BY <1>2, <2>i DEF NodeStarts, NodeRegisters, NotListed, Stale, Fresh
  <2>3. life' \in [ClusterNodes -> 0..MaxLives] /\ listed' \in [ClusterNodes -> NotListed..Stale]
    BY <2>j, <2>k
  <2>4. RunningLives'
    <3>1. CASE NodeStarts(n)
      BY <1>1, <2>1, <3>1, CenterBounds DEF NodeStarts, CenterInv, CenterTypes, RunningLives, Running
    <3>2. CASE NodeRegisters(n)
      BY <1>1, <2>1, <3>2 DEF NodeRegisters, CenterInv, CenterTypes, RunningLives, Running
    <3>. QED  BY <1>2, <3>1, <3>2
  <2>5. UNCHANGED <<orders, copy, order, stops, cutOff, centerFaults>>
    BY <1>2 DEF NodeStarts, NodeRegisters
  <2>6. CenterTypes'
    BY <2>2, <2>3, <2>5 DEF CenterInv, CenterTypes
  <2>7. OrdersNumbered' /\ DueAreSent' /\ OnceHandled'
    BY <2>2, <2>5 DEF CenterInv, OrdersNumbered, DueAreSent, OnceHandled
  <2>. QED  BY <2>4, <2>6, <2>7 DEF CenterInv
<1>3. CASE Unlisted(n)
  <2>1. listed' \in [ClusterNodes -> NotListed..Stale]
    BY <1>3 DEF Unlisted, CenterInv, CenterTypes, NotListed, Stale
  <2>. QED  BY <1>3, <2>1
            DEF Unlisted, CenterInv, CenterTypes, RunningLives, Running, OrdersNumbered, DueAreSent,
                OnceHandled
<1>4. CASE NodeEnds(n)
  <2>1. proc' = [proc EXCEPT ![n] = [at |-> "off", due |-> {}]]
        /\ UNCHANGED <<life, listed, orders, order, stops, cutOff, centerFaults>>
    BY <1>4 DEF NodeEnds
  <2>2. /\ proc' \in [ClusterNodes -> Procs]
        /\ \A k \in ClusterNodes : proc'[k].due \subseteq proc[k].due /\ (Running(k)' => Running(k))
    BY <2>1 DEF CenterInv, CenterTypes, Procs, Running
  <2>3. /\ copy' \in [1..MaxOrders -> {"none", "waiting", "busy", "done"}]
        /\ \A o \in 1..MaxOrders : /\ copy'[o] = "none" <=> copy[o] = "none"
                                   /\ copy'[o] = "done" <=> copy[o] = "done"
    BY <1>4 DEF NodeEnds, CenterInv, CenterTypes
  <2>4. CenterTypes' /\ RunningLives'
    BY <2>1, <2>2, <2>3 DEF CenterInv, CenterTypes, RunningLives
  <2>5. OrdersNumbered' /\ DueAreSent'
    BY <2>1, <2>2, <2>3 DEF CenterInv, OrdersNumbered, DueAreSent
  <2>6. OnceHandled'
    BY <2>1, <2>2, <2>3 DEF CenterInv, OnceHandled
  <2>. QED  BY <2>4, <2>5, <2>6 DEF CenterInv
<1>5. CASE TakeOrder(n)
  <2>1. UNCHANGED <<proc, life, listed, orders, order, stops, cutOff, centerFaults>>
    BY <1>5 DEF TakeOrder
  <2>2. PICK x \in orders : copy[x.id] = "waiting" /\ copy' = [copy EXCEPT ![x.id] = "busy"]
    BY <1>5 DEF TakeOrder
  <2>3. x.id \in 1..MaxOrders
    BY DEF CenterInv, OrdersNumbered
  <2>4. /\ copy' \in [1..MaxOrders -> {"none", "waiting", "busy", "done"}]
        /\ \A o \in 1..MaxOrders : /\ copy'[o] = "none" <=> copy[o] = "none"
                                   /\ copy'[o] = "done" <=> copy[o] = "done"
    BY <2>2, <2>3 DEF CenterInv, CenterTypes
  <2>5. CenterTypes' /\ RunningLives'
    BY <2>1, <2>4 DEF CenterInv, CenterTypes, RunningLives, Running
  <2>6. OrdersNumbered' /\ DueAreSent'
    BY <2>1, <2>4 DEF CenterInv, OrdersNumbered, DueAreSent
  <2>7. OnceHandled'
    BY <2>1, <2>4 DEF CenterInv, OnceHandled
  <2>. QED  BY <2>5, <2>6, <2>7 DEF CenterInv
<1>6. CASE HandleOrder(n)
  <2>1. UNCHANGED <<life, listed, orders, order, stops>>
    BY <1>6 DEF HandleOrder
  <2>2. PICK x \in orders :
          /\ x.node = n /\ copy[x.id] = "busy"
          /\ proc' = [proc EXCEPT ![n].due = IF x.command = "shutdown" THEN @ \cup {x.id} ELSE @]
          /\ \/ copy' = [copy EXCEPT ![x.id] = "done"] /\ UNCHANGED <<cutOff, centerFaults>>
             \/ /\ CenterFault /\ cutOff' = cutOff \cup {x.id}
                /\ copy' = [copy EXCEPT ![x.id] = "waiting"]
    BY <1>6 DEF HandleOrder
  <2>3. x.id \in 1..MaxOrders
    BY DEF CenterInv, OrdersNumbered
  <2>4. /\ proc' \in [ClusterNodes -> Procs]
        /\ \A k \in ClusterNodes : /\ Running(k)' = Running(k)
                                   /\ proc'[k].due \subseteq proc[k].due \cup {x.id}
                                   /\ k # n => proc'[k].due = proc[k].due
    BY <2>2, <2>3 DEF CenterInv, CenterTypes, Procs, Running
  <2>5. copy' \in [1..MaxOrders -> {"none", "waiting", "busy", "done"}]
        /\ \A o \in 1..MaxOrders : o # x.id => copy'[o] = copy[o]
    BY <2>2, <2>3 DEF CenterInv, CenterTypes
  <2>6. /\ cutOff' \subseteq 1..MaxOrders /\ cutOff \subseteq cutOff'
        /\ x.id \notin cutOff' => copy'[x.id] = "done"
    BY <2>2, <2>3 DEF CenterInv, CenterTypes
  <2>7. centerFaults' \in 0..MaxCenterFaults
    BY <2>2, CenterBounds DEF CenterInv, CenterTypes, CenterFault
  <2>8. CenterTypes' /\ RunningLives'
    BY <2>1, <2>4, <2>5, <2>6, <2>7 DEF CenterInv, CenterTypes, RunningLives
  <2>9. OrdersNumbered'
    BY <2>1, <2>2, <2>5 DEF CenterInv, OrdersNumbered
  <2>10. DueAreSent'
    BY <2>1, <2>2, <2>4 DEF CenterInv, DueAreSent
  <2>11. OnceHandled'
    <3>1. x.id \notin cutOff => /\ \A s \in stops : s.order # x.id
      BY <2>2, <2>3 DEF CenterInv, OnceHandled
    <3>. SUFFICES ASSUME NEW o \in (1..MaxOrders) \ cutOff'
                  PROVE  /\ copy'[o] # "done" => /\ \A s \in stops : s.order # o
                                                 /\ \A k \in ClusterNodes : o \notin proc'[k].due
                         /\ \A k \in ClusterNodes : o \in proc'[k].due => \A s \in stops : s.order # o
                         /\ \A s, t \in stops : s.order = o /\ t.order = o => s = t
      BY <2>1 DEF OnceHandled
    <3>2. o \in (1..MaxOrders) \ cutOff
      BY <2>6
    <3>3. CASE o = x.id
      BY <2>6, <3>1, <3>2, <3>3
    <3>4. CASE o # x.id
      BY <2>4, <2>5, <3>2, <3>4 DEF CenterInv, OnceHandled
    <3>. QED  BY <3>3, <3>4
  <2>. QED  BY <2>8, <2>9, <2>10, <2>11 DEF CenterInv
<1>7. CASE StopDue(n)
  <2>1. UNCHANGED <<life, listed, orders, copy, order, cutOff, centerFaults>>
    BY <1>7 DEF StopDue
  <2>2. PICK o \in proc[n].due :
          /\ proc' = [proc EXCEPT ![n] =
               [at |-> IF @.at = "running" THEN "stopping" ELSE @.at, due |-> @.due \ {o}]]
          /\ stops' = IF proc[n].at = "running"
                      THEN stops \cup {[order |-> o, life |-> life[n]]} ELSE stops
    BY <1>7 DEF StopDue
  <2>3. o \in 1..MaxOrders
    BY <1>1 DEF Procs
  <2>4. proc'[n] = [at |-> IF proc[n].at = "running" THEN "stopping" ELSE proc[n].at,
                    due |-> proc[n].due \ {o}]
        /\ \A k \in ClusterNodes \ {n} : proc'[k] = proc[k]
    BY <2>2 DEF CenterInv, CenterTypes
  <2>5. /\ proc' \in [ClusterNodes -> Procs]
        /\ \A k \in ClusterNodes : /\ Running(k)' = Running(k)
                                   /\ proc'[k].due \subseteq proc[k].due
                                   /\ k = n => o \notin proc'[k].due
    <3>1. [at |-> IF proc[n].at = "running" THEN "stopping" ELSE proc[n].at,
           due |-> proc[n].due \ {o}] \in Procs
      BY <1>1 DEF Procs
    <3>2. proc' \in [ClusterNodes -> Procs]
      BY <2>2, <3>1 DEF CenterInv, CenterTypes
    <3>. QED  BY <1>1, <2>4, <3>2 DEF Procs, Running
  <2>6. PICK l : l = life[n]
    OBVIOUS
  <2>7. stops' \subseteq [order : 1..MaxOrders, life : 1..MaxLives]
        /\ stops' \subseteq stops \cup {[order |-> o, life |-> l]}
    <3>1. proc[n].at = "running" => l \in 1..MaxLives
      BY <1>1, <2>6, CenterBounds DEF CenterInv, RunningLives, Running
    <3>. QED  BY <2>2, <2>3, <2>6, <3>1 DEF CenterInv, CenterTypes
  <2>8. CenterTypes' /\ RunningLives'
    BY <2>1, <2>5, <2>7 DEF CenterInv, CenterTypes, RunningLives
  <2>9. OrdersNumbered' /\ DueAreSent'
    BY <2>1, <2>5 DEF CenterInv, OrdersNumbered, DueAreSent
  <2>10. OnceHandled'
    <3>. SUFFICES ASSUME NEW p \in (1..MaxOrders) \ cutOff
                  PROVE  /\ copy[p] # "done" => /\ \A s \in stops' : s.order # p
                                                /\ \A k \in ClusterNodes : p \notin proc'[k].due
                         /\ \A k \in ClusterNodes : p \in proc'[k].due => \A s \in stops' : s.order # p
                         /\ \A s, t \in stops' : s.order = p /\ t.order = p => s = t
      BY <2>1 DEF OnceHandled
    <3>1. CASE p # o
      <4>1. \A s \in stops' : s.order = p => s \in stops
        BY <2>7, <3>1
      <4>. QED  BY <2>5, <4>1 DEF CenterInv, OnceHandled
    <3>2. CASE p = o
      <4>1. copy[p] = "done" /\ \A s \in stops : s.order # p
        BY <2>2, <3>2 DEF CenterInv, OnceHandled
      <4>2. \A k \in ClusterNodes : p \notin proc'[k].due
        <5>. SUFFICES ASSUME NEW k \in ClusterNodes, p \in proc'[k].due  PROVE FALSE
          OBVIOUS
        <5>1. k # n /\ p \in proc[k].due
          BY <2>5, <3>2
        <5>2. PICK x \in orders : x.id = p /\ x.node = k
          BY <5>1 DEF CenterInv, DueAreSent
        <5>3. PICK y \in orders : y.id = p /\ y.node = n
          BY <2>2, <3>2 DEF CenterInv, DueAreSent
        <5>. QED  BY <5>1, <5>2, <5>3 DEF CenterInv, OrdersNumbered
      <4>. QED  BY <2>7, <4>1, <4>2
    <3>. QED  BY <3>1, <3>2
  <2>. QED  BY <2>8, <2>9, <2>10 DEF CenterInv
<1>. QED  BY <1>2, <1>3, <1>4, <1>5, <1>6, <1>7

(***************************************************************************)
(* A call of CenterService sends an order to one of the nodes it found.    *)
(***************************************************************************)
LEMMA OrderIsPosted ==
  ASSUME CenterInv, NEW n \in ClusterNodes, NEW cmd \in {"shutdown", "restart"}, Posts(n, cmd),
         UNCHANGED <<proc, life, listed, stops, cutOff, centerFaults>>,
         order' \in [CenterCallers -> Orders]
  PROVE  CenterInv'
<1>1. Cardinality(orders) \in Nat /\ IsFiniteSet(orders)
  BY FS_CardinalityType DEF CenterInv, OrdersNumbered
<1>2. PICK o : o = Cardinality(orders) + 1
  OBVIOUS
<1>3. PICK x : x = [id |-> o, node |-> n, command |-> cmd]
  OBVIOUS
<1>4. o \in 1..MaxOrders /\ orders' = orders \cup {x} /\ copy' = [copy EXCEPT ![o] = "waiting"]
  BY <1>1, <1>2, <1>3, CenterBounds DEF Posts
<1>5. x.id = o /\ x \in [id : 1..MaxOrders, node : ClusterNodes, command : {"shutdown", "restart"}]
  BY <1>3, <1>4
<1>6. \A y \in orders : y.id \in Nat /\ y.id <= Cardinality(orders) /\ y.id # o
  BY <1>1, <1>2 DEF CenterInv, OrdersNumbered
<1>7. x \notin orders
  BY <1>5, <1>6
<1>8. IsFiniteSet(orders') /\ Cardinality(orders') = o
  BY <1>1, <1>2, <1>4, <1>7, FS_AddElement
<1>9. copy' \in [1..MaxOrders -> {"none", "waiting", "busy", "done"}]
      /\ copy'[o] = "waiting" /\ \A p \in 1..MaxOrders : p # o => copy'[p] = copy[p]
  BY <1>4 DEF CenterInv, CenterTypes
<1>10. CenterTypes' /\ RunningLives'
  BY <1>9 DEF CenterInv, CenterTypes, RunningLives, Running
<1>11. OrdersNumbered'
  <2>1. orders' \subseteq [id : 1..MaxOrders, node : ClusterNodes, command : {"shutdown", "restart"}]
    BY <1>4, <1>5 DEF CenterInv, OrdersNumbered
  <2>2. \A y \in orders' : y.id <= Cardinality(orders')
    <3>. SUFFICES ASSUME NEW y \in orders'  PROVE y.id <= o
      BY <1>8
    <3>. QED  BY <1>1, <1>2, <1>4, <1>5, <1>6
  <2>3. \A y, z \in orders' : y.id = z.id => y = z
    BY <1>4, <1>5, <1>6 DEF CenterInv, OrdersNumbered
  <2>4. \A p \in 1..MaxOrders : copy'[p] # "none" => \E y \in orders' : y.id = p
    BY <1>4, <1>5, <1>9 DEF CenterInv, OrdersNumbered
  <2>. QED  BY <1>8, <2>1, <2>2, <2>3, <2>4 DEF OrdersNumbered
<1>12. DueAreSent'
  BY <1>4 DEF CenterInv, DueAreSent
<1>13. OnceHandled'
  <2>1. copy[o] # "done"
    BY <1>4, <1>6 DEF CenterInv, OrdersNumbered
  <2>. QED  BY <1>9, <2>1 DEF CenterInv, OnceHandled
<1>. QED  BY <1>10, <1>11, <1>12, <1>13 DEF CenterInv

(***************************************************************************)
(* Every step of Center keeps its invariant.                               *)
(***************************************************************************)
LEMMA CenterSteps ==
  ASSUME CenterInv, CenterNext
  PROVE  CenterInv'
<1>1. ASSUME NEW c \in CenterCallers, NEW request \in {"shutdown", "restart", "broadcast"},
             NEW wanted \in SUBSET ClusterNodes, FindTargets(c, request, wanted)
      PROVE  CenterInv'
  <2>. DEFINE left == {[node |-> n, age |-> listed[n]] : n \in {k \in wanted : listed[k] # NotListed}}
  <2>1. order' = [order EXCEPT ![c] = [at |-> "send", request |-> request, left |-> left]]
    BY <1>1 DEF FindTargets
  <2>2. left \subseteq Targets
    BY DEF CenterInv, CenterTypes, Targets
  <2>. HIDE DEF left
  <2>3. [at |-> "send", request |-> request, left |-> left] \in Orders
    BY <2>2 DEF Orders
  <2>4. order' \in [CenterCallers -> Orders]
    BY <2>1, <2>3 DEF CenterInv, CenterTypes
  <2>5. UNCHANGED <<proc, life, listed, orders, copy, stops, cutOff, centerFaults>>
    BY <1>1 DEF FindTargets
  <2>. QED  BY <2>4, <2>5
            DEF CenterInv, CenterTypes, RunningLives, Running, OrdersNumbered, DueAreSent, OnceHandled
<1>2. ASSUME NEW c \in CenterCallers, SendToNode(c)
      PROVE  CenterInv'
  <2>1. order[c].at = "send" /\ UNCHANGED <<proc, life, listed, stops, cutOff>>
    BY <1>2 DEF SendToNode
  <2>2. PICK t \in order[c].left :
          /\ order' = [order EXCEPT ![c] =
               IF order[c].left \ {t} = {} THEN NoOrder
               ELSE [@ EXCEPT !.left = order[c].left \ {t}]]
          /\ \/ /\ t.age <= MaxAge(order[c].request)
                /\ \/ Posts(t.node, Command(order[c].request)) /\ UNCHANGED centerFaults
                   \/ CenterFault /\ UNCHANGED <<orders, copy>>
             \/ /\ t.age > MaxAge(order[c].request)
                /\ UNCHANGED <<orders, copy, centerFaults>>
    BY <1>2 DEF SendToNode
  <2>3. order[c] \in Orders
    BY DEF CenterInv, CenterTypes
  <2>4. order[c] \in [at : {"send"}, request : {"shutdown", "restart", "broadcast"}, left : SUBSET Targets]
    BY <2>1, <2>3 DEF Orders, NoOrder
  <2>5. order' \in [CenterCallers -> Orders]
    <3>. DEFINE rest == order[c].left \ {t}
                y == IF rest = {} THEN NoOrder ELSE [order[c] EXCEPT !.left = rest]
    <3>1. y \in Orders
      BY <2>4 DEF Orders
    <3>2. order' = [order EXCEPT ![c] = y]
      BY <2>2
    <3>. HIDE DEF y
    <3>. QED  BY <3>1, <3>2 DEF CenterInv, CenterTypes
  <2>6. t.node \in ClusterNodes
    BY <2>4 DEF Targets
  <2>7. Command(order[c].request) \in {"shutdown", "restart"}
    BY DEF Command
  <2>8. CASE Posts(t.node, Command(order[c].request)) /\ UNCHANGED centerFaults
    BY <2>1, <2>5, <2>6, <2>7, <2>8, OrderIsPosted
  <2>9. CASE UNCHANGED <<orders, copy>> /\ (CenterFault \/ UNCHANGED centerFaults)
    <3>1. centerFaults' \in 0..MaxCenterFaults
      BY <2>9, CenterBounds DEF CenterFault, CenterInv, CenterTypes
    <3>. QED  BY <2>1, <2>5, <2>9, <3>1
              DEF CenterInv, CenterTypes, RunningLives, Running, OrdersNumbered, DueAreSent, OnceHandled
  <2>. QED  BY <2>2, <2>8, <2>9
<1>3. CASE CenterTick
  <2>1. UNCHANGED <<proc, life, orders, copy, stops, cutOff, centerFaults>>
    BY <1>3 DEF CenterTick
  <2>2. \A a \in NotListed..Stale : Older(a) \in NotListed..Stale
    BY DEF Older, NotListed, Stale
  <2>3. listed' \in [ClusterNodes -> NotListed..Stale]
    BY <1>3, <2>2 DEF CenterTick, CenterInv, CenterTypes
  <2>4. ASSUME NEW c \in CenterCallers
        PROVE  order'[c] \in Orders
    <3>1. CASE order[c] = NoOrder
      BY <1>3, <3>1 DEF CenterTick, Orders
    <3>2. CASE order[c] # NoOrder
      <4>. DEFINE aged == {[t EXCEPT !.age = Older(@)] : t \in order[c].left}
      <4>1. order[c] \in [at : {"send"}, request : {"shutdown", "restart", "broadcast"},
                          left : SUBSET Targets]
        BY <3>2 DEF CenterInv, CenterTypes, Orders
      <4>2. aged \subseteq Targets
        <5>1. \A t \in Targets : [t EXCEPT !.age = Older(@)] \in Targets
          BY <2>2 DEF Targets
        <5>. QED  BY <4>1, <5>1
      <4>3. order'[c] = [order[c] EXCEPT !.left = aged]
        BY <1>3, <3>2 DEF CenterTick
      <4>. HIDE DEF aged
      <4>. QED  BY <4>1, <4>2, <4>3 DEF Orders
    <3>. QED  BY <3>1, <3>2
  <2>5. order' \in [CenterCallers -> Orders]
    BY <1>3, <2>4 DEF CenterTick
  <2>. QED  BY <2>1, <2>3, <2>5
            DEF CenterInv, CenterTypes, RunningLives, Running, OrdersNumbered, DueAreSent, OnceHandled
<1>4. ASSUME NEW c \in CenterCallers, NEW request \in {"shutdown", "restart", "broadcast"},
             NEW wanted \in {{n} : n \in ClusterNodes} \cup {ClusterNodes},
             FindTargets(c, request, wanted)
      PROVE  CenterInv'
  BY <1>1, <1>4
<1>. QED  BY <1>2, <1>3, <1>4, NodeSteps DEF CenterNext

(***************************************************************************)
(* The invariant has the types and what OrdersStopOnce says.               *)
(***************************************************************************)
LEMMA StopsOnceFollow == CenterInv => CenterTypeOK /\ OrdersStopOnce
<1>. SUFFICES ASSUME CenterInv  PROVE CenterTypeOK /\ OrdersStopOnce
  OBVIOUS
<1>1. CenterTypeOK
  <2>1. \A n \in ClusterNodes :
          /\ proc[n].at \in {"off", "initializing", "running", "stopping"}
          /\ proc[n].due \subseteq 1..MaxOrders
          /\ life[n] \in 0..MaxLives /\ listed[n] \in NotListed..Stale
    BY DEF CenterInv, CenterTypes, Procs
  <2>2. \A c \in CenterCallers : order[c].at \in {"idle", "send"}
    BY DEF CenterInv, CenterTypes, Orders, NoOrder
  <2>. QED  BY <2>1, <2>2 DEF CenterInv, CenterTypes, OrdersNumbered, CenterTypeOK
<1>2. \A s \in stops : s.order \in 1..MaxOrders
  BY DEF CenterInv, CenterTypes
<1>. QED  BY <1>1, <1>2 DEF CenterInv, OnceHandled, OrdersStopOnce

-----------------------------------------------------------------------------
(* Card rooms: what a call may hold.                                       *)
CardActions ==
  {NoAction} \cup [at : {"validate", "take"}, player : CardPlayers]
  \cup [at : {"cut", "deal"}, player : CardPlayers, card : Deck]
  \cup [at : {"store"}, player : CardPlayers, card : Deck, hand : Seq(Deck)]
  \cup [at : {"state", "events"}, player : CardPlayers, card : 0..DeckSize]

CardTypes ==
  /\ roomState \in {"none", "waiting", "running", "ended"}
  /\ seated \subseteq CardPlayers /\ IsFiniteSet(seated) /\ Cardinality(seated) <= MaxSeats
  /\ deck \in Seq(Deck) /\ hands \in [CardPlayers -> Seq(Deck)]
  /\ events \in Seq([player : CardPlayers, card : Deck])
  /\ action \in [CardCallers -> CardActions] /\ crossed \subseteq CardPlayers
  /\ atOnce \in BOOLEAN /\ down \in BOOLEAN /\ begins \in 0..MaxGameBegins
(* Nothing happens before the room is made.                                *)
BeforeTheRoom ==
  roomState = "none" =>
    /\ seated = {} /\ deck = <<>> /\ events = <<>> /\ \A p \in CardPlayers : hands[p] = <<>>
    /\ \A c \in CardCallers : action[c] = NoAction
(* The card of a draw that is about to cut the deck is still its first.    *)
OneDraw ==
  ~atOnce =>
    \A c \in CardCallers : action[c].at = "cut" =>
      /\ deck # <<>> /\ action[c].card = Head(deck)
      /\ \A d \in CardCallers : action[d].at = "cut" => d = c
(* A hand is what the one draw that is writing it has read, unless draws   *)
(* of the player have crossed.                                             *)
OneStore ==
  \A c \in CardCallers : action[c].at = "store" /\ action[c].player \notin crossed =>
    /\ action[c].hand = hands[action[c].player]
    /\ \A d \in CardCallers :
         action[d].at = "store" /\ action[d].player = action[c].player => d = c
(* The cards that a player has drawn for all to know.                      *)
Known(p) == Told(p) \cup Drawn(p)
(* No card is in two places.                                               *)
OnePlace ==
  ~atOnce =>
    /\ \A i, j \in DOMAIN deck : deck[i] = deck[j] => i = j
    /\ \A c, d \in Drawers({"deal", "store"}) : action[c].card = action[d].card => c = d
    /\ InDeck \cap OnTheWay = {}
    /\ \A p \in CardPlayers : Known(p) \cap (InDeck \cup OnTheWay) = {}
(* Every card is somewhere, and the places are as many as the cards.       *)
Held(p) == Dealt(p) \cup (IF p \in crossed THEN Known(p) ELSE {})
EveryCard ==
  ~atOnce /\ roomState # "none" =>
    /\ \A k \in Deck : k \in InDeck \cup OnTheWay \/ \E p \in CardPlayers : k \in Held(p)
    /\ crossed = {} =>
         /\ IsFiniteSet(HandCells)
         /\ Len(deck) + Cardinality(OnTheWay) + Cardinality(HandCells) = DeckSize
(* The cards of a hand, and of one that is being written, are known.       *)
HandsKnown ==
  /\ \A p \in CardPlayers : Dealt(p) \subseteq Known(p)
  /\ \A c \in CardCallers : action[c].at = "store" =>
       \A i \in DOMAIN action[c].hand : action[c].hand[i] \in Known(action[c].player)
CardsInv ==
  CardTypes /\ BeforeTheRoom /\ OneDraw /\ OneStore /\ OnePlace /\ EveryCard /\ HandsKnown

(***************************************************************************)
(* Card rooms start in their invariant.                                    *)
(***************************************************************************)
LEMMA CardsStart == CardsInit => CardsInv
<1>. SUFFICES ASSUME CardsInit  PROVE CardsInv
  OBVIOUS
<1>1. CardTypes
  <2>1. /\ roomState = "none" /\ seated = {} /\ deck = <<>> /\ events = <<>>
        /\ atOnce = FALSE /\ crossed = {} /\ down = FALSE /\ begins = 0
    BY DEF CardsInit
  <2>2. IsFiniteSet(seated) /\ Cardinality(seated) <= MaxSeats
    BY <2>1, FS_EmptySet, CardBounds
  <2>3. deck \in Seq(Deck) /\ events \in Seq([player : CardPlayers, card : Deck])
    BY <2>1, EmptySeq
  <2>4. hands \in [CardPlayers -> Seq(Deck)]
    <3>1. <<>> \in Seq(Deck)
      BY EmptySeq
    <3>. QED  BY <3>1 DEF CardsInit
  <2>5. action \in [CardCallers -> CardActions]
    BY DEF CardsInit, CardActions
  <2>6. begins \in 0..MaxGameBegins
    <3>1. 0 \in 0..MaxGameBegins
      BY CardBounds
    <3>. QED  BY <2>1, <3>1, Zenon
  <2>. QED  BY <2>1, <2>2, <2>3, <2>4, <2>5, <2>6 DEF CardTypes
<1>2. \A c \in CardCallers : action[c].at = "idle"
  BY DEF CardsInit, NoAction
<1>3. /\ InDeck = {} /\ OnTheWay = {} /\ DOMAIN deck = {} /\ Drawers({"deal", "store"}) = {}
      /\ \A p \in CardPlayers : Dealt(p) = {}
  <2>1. DOMAIN <<>> = {}
    BY EmptySeq
  <2>2. deck = <<>> /\ \A p \in CardPlayers : hands[p] = <<>>
    BY DEF CardsInit
  <2>3. \A p \in CardPlayers : Dealt(p) = {}
    BY <2>1, <2>2 DEF Dealt
  <2>4. Drawers({"deal", "store"}) = {}
    BY <1>2 DEF Drawers
  <2>. QED  BY <2>1, <2>2, <2>3, <2>4 DEF InDeck, OnTheWay
<1>4. OnePlace
  BY <1>3 DEF OnePlace
<1>5. roomState = "none" /\ BeforeTheRoom
  BY DEF CardsInit, BeforeTheRoom
<1>6. OneStore /\ HandsKnown
  BY <1>2, <1>3 DEF OneStore, HandsKnown
<1>. QED  BY <1>1, <1>2, <1>4, <1>5, <1>6 DEF CardsInv, OneDraw, EveryCard

(***************************************************************************)
(* What a call holds at each of its stages.                                *)
(***************************************************************************)
LEMMA StagesOfADraw ==
  ASSUME CardTypes, NEW c \in CardCallers
  PROVE  /\ action[c].at \in {"validate", "take"} =>
              action[c] = [at |-> action[c].at, player |-> action[c].player]
              /\ action[c].player \in CardPlayers
         /\ action[c].at \in {"cut", "deal"} =>
              action[c].player \in CardPlayers /\ action[c].card \in Deck
         /\ action[c].at = "store" =>
              action[c].player \in CardPlayers /\ action[c].card \in Deck /\ action[c].hand \in Seq(Deck)
         /\ action[c].at \in {"state", "events"} =>
              action[c].player \in CardPlayers /\ action[c].card \in 0..DeckSize
         /\ action[c].at \in {"idle", "validate", "take", "cut", "deal", "store", "state", "events"}
<1>1. action[c] \in CardActions
  BY DEF CardTypes
<1>. QED  BY <1>1 DEF CardActions, NoAction

(***************************************************************************)
(* The steps of the card rooms keep the types.                             *)
(***************************************************************************)
LEMMA CardsKeepTypes ==
  ASSUME CardTypes, CardsNext
  PROVE  CardTypes'
<1>1. NoAction \in CardActions
  BY DEF CardActions
<1>2. CASE CreateRoom
  <2>1. deck' \in Seq(Deck)
    BY <1>2, CardBounds DEF CreateRoom, Deck
  <2>. QED  BY <1>2, <2>1 DEF CreateRoom, CardTypes
<1>3. CASE Begin
  BY <1>3, CardBounds DEF Begin, CardTypes
<1>4. ASSUME NEW p \in CardPlayers, JoinRoom(p)
      PROVE  CardTypes'
  <2>1. IsFiniteSet(seated') /\ Cardinality(seated') = Cardinality(seated) + 1
    BY <1>4, FS_AddElement DEF JoinRoom, AddPlayer, CardTypes
  <2>2. Cardinality(seated) \in Nat
    BY FS_CardinalityType DEF CardTypes
  <2>3. Cardinality(seated') <= MaxSeats
    BY <1>4, <2>1, <2>2, CardBounds DEF JoinRoom, AddPlayer
  <2>. QED  BY <1>4, <2>1, <2>3 DEF JoinRoom, AddPlayer, CardTypes
<1>5. ASSUME NEW p \in CardPlayers, LeaveRoom(p)
      PROVE  CardTypes'
  <2>1. IsFiniteSet(seated') /\ Cardinality(seated') = Cardinality(seated) - 1
    BY <1>5, FS_RemoveElement DEF LeaveRoom, RemovePlayer, CardTypes
  <2>2. Cardinality(seated) \in Nat
    BY FS_CardinalityType DEF CardTypes
  <2>3. Cardinality(seated') <= MaxSeats
    BY <2>1, <2>2, CardBounds DEF CardTypes
  <2>4. seated' \subseteq CardPlayers /\ roomState' \in {"none", "waiting", "running", "ended"}
    BY <1>5 DEF LeaveRoom, RemovePlayer, CardTypes
  <2>. QED  BY <1>5, <2>1, <2>3, <2>4 DEF LeaveRoom, RemovePlayer, CardTypes
<1>6. ASSUME NEW c \in CardCallers, NEW p \in CardPlayers, FindPlayer(c, p)
      PROVE  CardTypes'
  <2>1. [at |-> "validate", player |-> p] \in CardActions
    BY DEF CardActions
  <2>. QED  BY <1>6, <2>1 DEF FindPlayer, ActionGoes, CardTypes
<1>7. ASSUME NEW c \in CardCallers, ValidateDraw(c)
      PROVE  CardTypes'
  <2>1. [action[c] EXCEPT !.at = "take"] \in CardActions
    <3>1. action[c] \in [at : {"validate", "take"}, player : CardPlayers]
      <4>1. action \in [CardCallers -> CardActions] /\ action[c].at = "validate"
        BY <1>7 DEF ValidateDraw, CardTypes
      <4>2. PICK z \in CardActions : z = action[c] /\ z.at = "validate"
        BY <4>1
      <4>3. /\ z # NoAction /\ z \notin [at : {"cut", "deal"}, player : CardPlayers, card : Deck]
            /\ z \notin [at : {"store"}, player : CardPlayers, card : Deck, hand : Seq(Deck)]
            /\ z \notin [at : {"state", "events"}, player : CardPlayers, card : 0..DeckSize]
        BY <4>2 DEF NoAction
      <4>4. z \in [at : {"validate", "take"}, player : CardPlayers]
        BY <4>2, <4>3, Zenon DEF CardActions
      <4>. QED  BY <4>2, <4>4
    <3>2. PICK z \in [at : {"validate", "take"}, player : CardPlayers] : z = action[c]
      BY <3>1
    <3>3. [z EXCEPT !.at = "take"] \in [at : {"validate", "take"}, player : CardPlayers]
      BY <3>2
    <3>. QED  BY <3>2, <3>3, Zenon DEF CardActions
  <2>2. action' \in [CardCallers -> CardActions]
    BY <1>1, <1>7, <2>1 DEF ValidateDraw, ActionGoes, ActionReturns, CardTypes
  <2>. QED  BY <1>7, <2>2 DEF ValidateDraw, CardTypes
<1>8. ASSUME NEW c \in CardCallers, TakeCard(c)
      PROVE  CardTypes'
  <2>1. action[c].player \in CardPlayers
    BY <1>8, StagesOfADraw DEF TakeCard
  <2>2. [at |-> "state", player |-> action[c].player, card |-> 0] \in CardActions
    <3>1. 0 \in 0..DeckSize
      BY CardBounds
    <3>. QED  BY <2>1, <3>1 DEF CardActions
  <2>3. deck # <<>> => [at |-> "cut", player |-> action[c].player, card |-> Head(deck)] \in CardActions
    <3>1. deck # <<>> => Head(deck) \in Deck
      BY HeadTailProperties DEF CardTypes
    <3>. QED  BY <2>1, <3>1 DEF CardActions
  <2>4. action' \in [CardCallers -> CardActions]
    BY <1>8, <2>2, <2>3 DEF TakeCard, ActionGoes, CardTypes
  <2>. QED  BY <1>8, <2>4 DEF TakeCard, CardTypes
<1>9. ASSUME NEW c \in CardCallers, CutDeck(c)
      PROVE  CardTypes'
  <2>1. [action[c] EXCEPT !.at = "deal"] \in CardActions
    <3>1. action[c] \in [at : {"cut", "deal"}, player : CardPlayers, card : Deck]
      <4>1. action[c] \in CardActions /\ action[c].at = "cut"
        BY <1>9 DEF CutDeck, CardTypes
      <4>. QED  BY <4>1 DEF CardActions, NoAction
    <3>. QED  BY <3>1 DEF CardActions
  <2>2. action' \in [CardCallers -> CardActions]
    BY <1>9, <2>1 DEF CutDeck, ActionGoes, CardTypes
  <2>3. deck' \in Seq(Deck)
    <3>1. deck # <<>> => Tail(deck) \in Seq(Deck)
      BY HeadTailProperties DEF CardTypes
    <3>. QED  BY <1>9, <3>1 DEF CutDeck, CardTypes
  <2>. QED  BY <1>9, <2>2, <2>3 DEF CutDeck, CardTypes
<1>10. ASSUME NEW c \in CardCallers, ReadHand(c)
       PROVE  CardTypes'
  <2>1. action[c].player \in CardPlayers /\ action[c].card \in Deck
    BY <1>10, StagesOfADraw DEF ReadHand
  <2>2. hands[action[c].player] \in Seq(Deck)
    BY <2>1 DEF CardTypes
  <2>3. [at |-> "store", player |-> action[c].player, card |-> action[c].card,
         hand |-> hands[action[c].player]] \in CardActions
    BY <2>1, <2>2 DEF CardActions
  <2>4. action' \in [CardCallers -> CardActions]
    BY <1>10, <2>3 DEF ReadHand, ActionGoes, CardTypes
  <2>5. crossed' \subseteq CardPlayers
    BY <1>10, <2>1 DEF ReadHand, CardTypes
  <2>. QED  BY <1>10, <2>4, <2>5 DEF ReadHand, CardTypes
<1>13. ASSUME NEW c \in CardCallers, StoreHand(c)
       PROVE  CardTypes'
  <2>1. /\ action[c].player \in CardPlayers /\ action[c].card \in Deck
        /\ action[c].hand \in Seq(Deck)
    BY <1>13, StagesOfADraw DEF StoreHand
  <2>2. Deck \subseteq 0..DeckSize
    BY CardBounds DEF Deck
  <2>3. [at |-> "state", player |-> action[c].player, card |-> action[c].card] \in CardActions
    BY <2>1, <2>2 DEF CardActions
  <2>4. action' \in [CardCallers -> CardActions]
    BY <1>13, <2>3 DEF StoreHand, ActionGoes, CardTypes
  <2>5. hands' \in [CardPlayers -> Seq(Deck)]
    <3>1. Append(action[c].hand, action[c].card) \in Seq(Deck)
      BY <2>1, AppendProperties
    <3>. QED  BY <1>13, <3>1 DEF StoreHand, CardTypes
  <2>. QED  BY <1>13, <2>4, <2>5 DEF StoreHand, CardTypes
<1>14. CASE MapRace
  BY <1>14 DEF MapRace, CardTypes
<1>11. ASSUME NEW c \in CardCallers, NextState(c)
       PROVE  CardTypes'
  <2>1. [action[c] EXCEPT !.at = "events"] \in CardActions
    <3>1. action[c] \in [at : {"state", "events"}, player : CardPlayers, card : 0..DeckSize]
      <4>1. action[c] \in CardActions /\ action[c].at = "state"
        BY <1>11 DEF NextState, CardTypes
      <4>. QED  BY <4>1 DEF CardActions, NoAction
    <3>. QED  BY <3>1 DEF CardActions
  <2>2. action' \in [CardCallers -> CardActions]
    BY <1>11, <2>1 DEF NextState, ActionGoes, CardTypes
  <2>. QED  BY <1>11, <2>2 DEF NextState, CardTypes
<1>12. ASSUME NEW c \in CardCallers, AddEvents(c)
       PROVE  CardTypes'
  <2>1. Events(action[c]) \in Seq([player : CardPlayers, card : Deck])
    <3>1. action[c].player \in CardPlayers /\ action[c].card \in 0..DeckSize
      BY <1>12, StagesOfADraw DEF AddEvents
    <3>2. action[c].card # 0 => action[c].card \in Deck
      BY <3>1, CardBounds DEF Deck
    <3>3. <<>> \in Seq([player : CardPlayers, card : Deck])
      BY EmptySeq
    <3>4. CASE action[c].card = 0
      BY <3>3, <3>4 DEF Events
    <3>5. CASE action[c].card # 0
      <4>. DEFINE e == [player |-> action[c].player, card |-> action[c].card]
      <4>1. e \in [player : CardPlayers, card : Deck]
        BY <3>1, <3>2, <3>5
      <4>2. Events(action[c]) = <<e>>
        BY <3>5 DEF Events
      <4>. HIDE DEF e
      <4>. QED  BY <4>1, <4>2
    <3>. QED  BY <3>4, <3>5
  <2>2. events' \in Seq([player : CardPlayers, card : Deck])
    BY <1>12, <2>1, ConcatProperties DEF AddEvents, CardTypes
  <2>3. action' \in [CardCallers -> CardActions]
    BY <1>1, <1>12 DEF AddEvents, ActionReturns, ActionGoes, CardTypes
  <2>. QED  BY <1>12, <2>2, <2>3 DEF AddEvents, CardTypes
<1>. QED  BY <1>2, <1>3, <1>4, <1>5, <1>6, <1>7, <1>8, <1>9, <1>10, <1>11, <1>12,
          <1>13, <1>14 DEF CardsNext

(***************************************************************************)
(* The deck is as large as DeckSize says.                                  *)
(***************************************************************************)
LEMMA DeckIsFinite == IsFiniteSet(Deck) /\ Cardinality(Deck) = DeckSize
BY FS_Interval, CardBounds DEF Deck

(***************************************************************************)
(* The cards that are dealt are cards of the deck.                         *)
(***************************************************************************)
LEMMA OnTheWayIsFinite ==
  ASSUME CardTypes
  PROVE  OnTheWay \subseteq Deck /\ IsFiniteSet(OnTheWay) /\ Cardinality(OnTheWay) \in Nat
<1>1. \A c \in CardCallers : action[c].at \in {"deal", "store"} => action[c].card \in Deck
  BY StagesOfADraw
<1>2. OnTheWay \subseteq Deck
  BY <1>1 DEF OnTheWay, Drawers
<1>. QED  BY <1>2, DeckIsFinite, FS_Subset, FS_CardinalityType

(***************************************************************************)
(* What is known stays the same while no draw is dealt and none is told.   *)
(***************************************************************************)
LEMMA KnownStays ==
  ASSUME UNCHANGED events,
         \A d \in CardCallers : action[d].at \in {"state", "events"} =>
            /\ action'[d].at \in {"state", "events"}
            /\ action'[d].player = action[d].player /\ action'[d].card = action[d].card,
         \A d \in CardCallers : action'[d].at \in {"state", "events"} =>
            \/ action[d].at \in {"state", "events"}
            \/ action'[d].card = 0
  PROVE  \A q : Known(q)' = Known(q)
<1>. SUFFICES ASSUME NEW q  PROVE Known(q)' = Known(q)
  OBVIOUS
<1>1. Told(q)' = Told(q)
  BY DEF Told
<1>2. 0 \notin Deck
  BY CardBounds DEF Deck
<1>3. ASSUME NEW k \in Deck
      PROVE  k \in Drawn(q)' <=> k \in Drawn(q)
  BY <1>2, <1>3 DEF Drawn, Drawers
<1>4. Drawn(q) \subseteq Deck /\ Drawn(q)' \subseteq Deck
  BY DEF Drawn
<1>5. Drawn(q)' = Drawn(q)
  BY <1>3, <1>4
<1>. QED  BY <1>1, <1>5 DEF Known

(***************************************************************************)
(* While neither deck nor hands change and no card is on its way that was  *)
(* not, every card is where it was.                                        *)
(***************************************************************************)
LEMMA CardsStay ==
  ASSUME CardsInv, UNCHANGED <<deck, hands, crossed>>, atOnce => atOnce',
         roomState' # "none" => roomState # "none",
         \A d \in CardCallers :
           action[d].at \in {"deal", "store"} \/ action'[d].at \in {"deal", "store"}
             => action'[d] = action[d],
         \A q \in CardPlayers : Known(q)' = Known(q)
  PROVE  OneStore' /\ OnePlace' /\ EveryCard' /\ HandsKnown'
<1>1. Drawers({"deal", "store"})' = Drawers({"deal", "store"})
  BY DEF Drawers
<1>2. \A d \in Drawers({"deal", "store"}) : action'[d] = action[d]
  BY DEF Drawers
<1>3. OnTheWay' = OnTheWay
  BY <1>1, <1>2 DEF OnTheWay
<1>4. /\ InDeck' = InDeck /\ HandCells' = HandCells
      /\ \A p \in CardPlayers : Dealt(p)' = Dealt(p) /\ Held(p)' = Held(p)
  BY DEF InDeck, HandCells, Dealt, Held
<1>5. \A d \in CardCallers : action'[d].at = "store" => action'[d] = action[d]
  OBVIOUS
<1>6. OneStore'
  BY <1>5 DEF CardsInv, OneStore
<1>7. OnePlace'
  BY <1>1, <1>2, <1>3, <1>4 DEF CardsInv, OnePlace
<1>8. EveryCard'
  BY <1>3, <1>4 DEF CardsInv, EveryCard
<1>9. HandsKnown'
  <2>1. ASSUME NEW c \in CardCallers, action'[c].at = "store", NEW i \in DOMAIN action'[c].hand,
               NEW q, q = action[c].player
        PROVE  action'[c].hand[i] \in Known(q)'
    <3>1. action'[c] = action[c] /\ q \in CardPlayers
      BY <1>5, <2>1, StagesOfADraw DEF CardsInv
    <3>2. action[c].hand[i] \in Known(action[c].player)
      BY <2>1, <3>1 DEF CardsInv, HandsKnown
    <3>3. action[c].hand[i] \in Known(q)
      BY <2>1, <3>2
    <3>. QED  BY <3>1, <3>3
  <2>2. ASSUME NEW c \in CardCallers, action'[c].at = "store", NEW i \in DOMAIN action'[c].hand
        PROVE  (action[c].hand[i] \in Known(action[c].player))'
    <3>1. PICK q : q = action[c].player /\ q = action'[c].player
      BY <1>5, <2>2
    <3>2. action'[c].hand[i] \in Known(q)'
      BY <2>1, <2>2, <3>1
    <3>. QED  BY <3>1, <3>2 DEF Known, Told, Drawn
  <2>. QED  BY <1>4, <2>2 DEF CardsInv, HandsKnown
<1>. QED  BY <1>6, <1>7, <1>8, <1>9

(***************************************************************************)
(* A call that neither cuts, deals, stores nor tells.                      *)
(***************************************************************************)
LEMMA DrawMoves ==
  ASSUME CardsInv, NEW c \in CardCallers, NEW y, action' = [action EXCEPT ![c] = y],
         UNCHANGED <<deck, hands, events, crossed>>, atOnce => atOnce',
         roomState' # "none" => roomState # "none",
         action[c].at \notin {"cut", "deal", "store", "events"}, y.at \notin {"cut", "deal", "store"},
         y.at \in {"state", "events"} => y.card = 0 \/ action[c].at = "state",
         action[c].at = "state" =>
           y.at = "events" /\ y.card = action[c].card /\ y.player = action[c].player
  PROVE  OneDraw' /\ OneStore' /\ OnePlace' /\ EveryCard' /\ HandsKnown'
<1>1. action'[c] = y /\ \A d \in CardCallers \ {c} : action'[d] = action[d]
  BY DEF CardsInv, CardTypes
<1>2. \A d \in CardCallers : action'[d].at = "cut" => action'[d] = action[d]
  BY <1>1
<1>3. OneDraw'
  BY <1>1, <1>2 DEF CardsInv, OneDraw
<1>4. \A q : Known(q)' = Known(q)
  <2>1. \A d \in CardCallers : action[d].at \in {"state", "events"} =>
            /\ action'[d].at \in {"state", "events"}
            /\ action'[d].player = action[d].player /\ action'[d].card = action[d].card
    BY <1>1
  <2>2. \A d \in CardCallers : action'[d].at \in {"state", "events"} =>
            \/ action[d].at \in {"state", "events"}
            \/ action'[d].card = 0
    BY <1>1
  <2>. QED  BY <2>1, <2>2, KnownStays
<1>5. \A d \in CardCallers :
        action[d].at \in {"deal", "store"} \/ action'[d].at \in {"deal", "store"}
          => action'[d] = action[d]
  BY <1>1
<1>. QED  BY <1>3, <1>4, <1>5, CardsStay

(***************************************************************************)
(* A card is cut off the deck: it is on its way, and nowhere else.         *)
(***************************************************************************)
LEMMA DeckIsCut ==
  ASSUME CardsInv, NEW c \in CardCallers, CutDeck(c), deck # <<>>
  PROVE  OneDraw' /\ OneStore' /\ OnePlace' /\ EveryCard' /\ HandsKnown'
<1>1. deck' = Tail(deck) /\ UNCHANGED <<roomState, hands, events, crossed, atOnce>>
  BY DEF CutDeck
<1>2. PICK y : y = [action[c] EXCEPT !.at = "deal"]
  OBVIOUS
<1>3. /\ action[c].at = "cut" /\ action[c].player \in CardPlayers /\ action[c].card \in Deck
      /\ y.at = "deal" /\ y.player = action[c].player /\ y.card = action[c].card
  <2>1. action[c] \in CardActions /\ action[c].at = "cut"
    BY DEF CutDeck, CardsInv, CardTypes
  <2>2. action[c] \in [at : {"cut", "deal"}, player : CardPlayers, card : Deck]
    BY <2>1 DEF CardActions, NoAction
  <2>. QED  BY <1>2, <2>1, <2>2
<1>4. action'[c] = y /\ \A d \in CardCallers \ {c} : action'[d] = action[d]
  BY <1>2 DEF CutDeck, ActionGoes, CardsInv, CardTypes
<1>5. roomState # "none"
  BY <1>3 DEF CardsInv, BeforeTheRoom, NoAction
<1>6. \A q : Known(q)' = Known(q)
  <2>1. \A d \in CardCallers : action[d].at \in {"state", "events"} =>
            /\ action'[d].at \in {"state", "events"}
            /\ action'[d].player = action[d].player /\ action'[d].card = action[d].card
    BY <1>3, <1>4
  <2>2. \A d \in CardCallers : action'[d].at \in {"state", "events"} =>
            action[d].at \in {"state", "events"}
    BY <1>3, <1>4
  <2>. QED  BY <1>1, <2>1, <2>2, KnownStays
<1>7. \A d \in CardCallers : action'[d].at = "store" <=> action[d].at = "store"
  BY <1>3, <1>4
<1>8. \A d \in CardCallers : action'[d].at = "store" => action'[d] = action[d]
  BY <1>3, <1>4
<1>9. OneStore' /\ HandsKnown'
  <2>1. OneStore'
    BY <1>1, <1>7, <1>8 DEF CardsInv, OneStore
  <2>2. ASSUME NEW d \in CardCallers, action'[d].at = "store", NEW i \in DOMAIN action'[d].hand
        PROVE  (action[d].hand[i] \in Known(action[d].player))'
    <3>1. PICK q : q = action[d].player /\ q = action'[d].player
      BY <1>8, <2>2
    <3>2. action[d].hand[i] \in Known(action[d].player)
      BY <1>8, <2>2 DEF CardsInv, HandsKnown
    <3>3. action'[d].hand[i] \in Known(q)
      BY <1>8, <2>2, <3>1, <3>2
    <3>4. action'[d].hand[i] \in Known(q)'
      BY <1>6, <3>3
    <3>. QED  BY <3>1, <3>4 DEF Known, Told, Drawn
  <2>3. \A p : Dealt(p)' = Dealt(p)
    BY <1>1 DEF Dealt
  <2>. QED  BY <1>6, <2>1, <2>2, <2>3 DEF CardsInv, HandsKnown
<1>. SUFFICES ASSUME ~atOnce  PROVE OneDraw' /\ OnePlace' /\ EveryCard'
  BY <1>1, <1>9 DEF OneDraw, OnePlace, EveryCard
<1>10. /\ action[c].card = Head(deck)
       /\ \A d \in CardCallers : action[d].at = "cut" => d = c
  BY <1>3 DEF CardsInv, OneDraw
<1>11. OneDraw'
  BY <1>3, <1>4, <1>10 DEF OneDraw
<1>12. /\ deck \in Seq(Deck) /\ Len(deck) \in Nat \ {0} /\ Len(deck') = Len(deck) - 1
       /\ deck' \in Seq(Deck) /\ DOMAIN deck = 1..Len(deck) /\ DOMAIN deck' = 1..Len(deck')
       /\ \A i \in 1..Len(deck') : deck'[i] = deck[i + 1]
       /\ Head(deck) = deck[1]
  BY <1>1, HeadTailProperties, LenProperties, EmptySeq DEF CardsInv, CardTypes
<1>13. /\ \A i, j \in DOMAIN deck : deck[i] = deck[j] => i = j
       /\ \A d, e \in Drawers({"deal", "store"}) : action[d].card = action[e].card => d = e
       /\ InDeck \cap OnTheWay = {}
       /\ \A p \in CardPlayers : Known(p) \cap (InDeck \cup OnTheWay) = {}
  BY DEF CardsInv, OnePlace
<1>14. y.card \in InDeck /\ InDeck' = InDeck \ {y.card}
  <2>1. y.card = deck[1] /\ 1 \in DOMAIN deck
    BY <1>3, <1>10, <1>12
  <2>2. ASSUME NEW k \in InDeck'
        PROVE  k \in InDeck /\ k # y.card
    <3>1. PICK i \in 1..Len(deck') : k = deck'[i]
      BY <1>12 DEF InDeck
    <3>2. i + 1 \in DOMAIN deck /\ k = deck[i + 1] /\ i + 1 # 1
      BY <1>12, <3>1
    <3>. QED  BY <1>13, <2>1, <3>2 DEF InDeck
  <2>3. ASSUME NEW k \in InDeck, k # y.card
        PROVE  k \in InDeck'
    <3>1. PICK i \in DOMAIN deck : k = deck[i]
      BY DEF InDeck
    <3>2. i # 1
      BY <2>1, <2>3, <3>1
    <3>3. i - 1 \in 1..Len(deck') /\ (i - 1) + 1 = i
      BY <1>12, <3>1, <3>2
    <3>4. deck'[i - 1] = deck[i]
      BY <1>12, <3>3
    <3>. QED  BY <1>12, <3>1, <3>3, <3>4 DEF InDeck
  <2>. QED  BY <2>1, <2>2, <2>3 DEF InDeck
<1>15. /\ \A d : d \in Drawers({"deal", "store"})' <=> (d \in Drawers({"deal", "store"}) \/ d = c)
       /\ \A d \in Drawers({"deal", "store"}) : action'[d].card = action[d].card
  BY <1>3, <1>4 DEF Drawers
<1>16. OnTheWay' = OnTheWay \cup {y.card} /\ y.card \notin OnTheWay
  <2>1. ASSUME NEW k  PROVE k \in OnTheWay' <=> (k \in OnTheWay \/ k = y.card)
    <3>1. k \in OnTheWay' <=> \E d \in Drawers({"deal", "store"})' : k = action'[d].card
      BY DEF OnTheWay
    <3>2. k \in OnTheWay <=> \E d \in Drawers({"deal", "store"}) : k = action[d].card
      BY DEF OnTheWay
    <3>. QED  BY <1>4, <1>15, <3>1, <3>2
  <2>2. OnTheWay' = OnTheWay \cup {y.card}
    BY <2>1
  <2>. QED  BY <1>13, <1>14, <2>2
<1>17. OnePlace'
  <2>1. \A i, j \in DOMAIN deck' : deck'[i] = deck'[j] => i = j
    <3>. SUFFICES ASSUME NEW i \in 1..Len(deck'), NEW j \in 1..Len(deck'), deck'[i] = deck'[j]
                  PROVE  i = j
      BY <1>12
    <3>1. i + 1 \in DOMAIN deck /\ j + 1 \in DOMAIN deck /\ deck[i + 1] = deck[j + 1]
      BY <1>12
    <3>2. i + 1 = j + 1
      BY <1>13, <3>1
    <3>. QED  BY <3>2
  <2>2. \A d \in Drawers({"deal", "store"}) : action[d].card # y.card
    BY <1>16 DEF OnTheWay
  <2>3. \A d, e \in Drawers({"deal", "store"})' : action'[d].card = action'[e].card => d = e
    BY <1>4, <1>13, <1>15, <2>2
  <2>4. InDeck' \cup OnTheWay' = InDeck \cup OnTheWay /\ InDeck' \cap OnTheWay' = {}
    BY <1>13, <1>14, <1>16
  <2>5. \A p \in CardPlayers : Known(p)' \cap (InDeck' \cup OnTheWay') = {}
    BY <1>6, <1>13, <2>4
  <2>. QED  BY <2>1, <2>3, <2>4, <2>5 DEF OnePlace
<1>18. EveryCard'
  <2>1. /\ \A k \in Deck : k \in InDeck \cup OnTheWay \/ \E p \in CardPlayers : k \in Held(p)
        /\ crossed = {} =>
             /\ IsFiniteSet(HandCells)
             /\ Len(deck) + Cardinality(OnTheWay) + Cardinality(HandCells) = DeckSize
    BY <1>5 DEF CardsInv, EveryCard
  <2>2. HandCells' = HandCells /\ \A p : Held(p)' = Held(p)
    BY <1>1, <1>6 DEF HandCells, Held, Dealt
  <2>3. IsFiniteSet(OnTheWay) /\ Cardinality(OnTheWay) \in Nat
    BY OnTheWayIsFinite DEF CardsInv
  <2>4. Cardinality(OnTheWay') = Cardinality(OnTheWay) + 1
    <3>1. Cardinality(OnTheWay \cup {y.card}) = Cardinality(OnTheWay) + 1
      BY <1>16, <2>3, FS_AddElement
    <3>. QED  BY <1>16, <3>1, Zenon
  <2>5. ASSUME crossed = {}
        PROVE  IsFiniteSet(HandCells) /\ Len(deck') + Cardinality(OnTheWay') + Cardinality(HandCells) = DeckSize
    <3>1. Cardinality(HandCells) \in Nat
      BY <2>1, <2>5, FS_CardinalityType
    <3>. QED  BY <1>12, <2>1, <2>3, <2>4, <2>5, <3>1
  <2>6. InDeck' \cup OnTheWay' = InDeck \cup OnTheWay
    BY <1>14, <1>16
  <2>. QED  BY <1>1, <2>1, <2>2, <2>5, <2>6 DEF EveryCard
<1>. QED  BY <1>11, <1>17, <1>18

(***************************************************************************)
(* A draw reads the hand; if another is writing it, the two have crossed.  *)
(***************************************************************************)
LEMMA HandIsRead ==
  ASSUME CardsInv, NEW c \in CardCallers, ReadHand(c)
  PROVE  OneDraw' /\ OneStore' /\ OnePlace' /\ EveryCard' /\ HandsKnown'
<1>1. PICK p, k : p = action[c].player /\ k = action[c].card
  OBVIOUS
<1>2. PICK y : y = [at |-> "store", player |-> p, card |-> k, hand |-> hands[p]]
  OBVIOUS
<1>3. y.at = "store" /\ y.player = p /\ y.card = k /\ y.hand = hands[p]
  BY <1>2
<1>4. /\ action[c].at = "deal" /\ p \in CardPlayers
      /\ UNCHANGED <<roomState, deck, hands, events, atOnce>>
      /\ crossed' = IF Drawing(p) # {} THEN crossed \cup {p} ELSE crossed
  BY <1>1, StagesOfADraw DEF ReadHand, CardsInv
<1>5. action'[c] = y /\ \A d \in CardCallers \ {c} : action'[d] = action[d]
  BY <1>1, <1>2 DEF ReadHand, ActionGoes, CardsInv, CardTypes
<1>6. roomState # "none"
  BY <1>4 DEF CardsInv, BeforeTheRoom, NoAction
<1>7. \A q : Known(q)' = Known(q)
  <2>1. \A d \in CardCallers : action[d].at \in {"state", "events"} =>
            /\ action'[d].at \in {"state", "events"}
            /\ action'[d].player = action[d].player /\ action'[d].card = action[d].card
    BY <1>4, <1>5
  <2>2. \A d \in CardCallers : action'[d].at \in {"state", "events"} =>
            action[d].at \in {"state", "events"}
    BY <1>3, <1>5
  <2>. QED  BY <1>4, <2>1, <2>2, KnownStays
<1>8. OneDraw'
  <2>1. \A d \in CardCallers : action'[d].at = "cut" => action'[d] = action[d]
    BY <1>3, <1>5
  <2>. QED  BY <1>4, <2>1 DEF CardsInv, OneDraw
<1>9. OneStore'
  <2>1. ASSUME NEW d \in CardCallers, action'[d].at = "store", action'[d].player \notin crossed'
        PROVE  /\ action'[d].hand = hands[action'[d].player]
               /\ \A e \in CardCallers :
                    action'[e].at = "store" /\ action'[e].player = action'[d].player => e = d
    <3>1. CASE d = c
      <4>1. Drawing(p) = {}
        BY <1>3, <1>4, <1>5, <2>1, <3>1
      <4>. QED  BY <1>3, <1>5, <3>1, <4>1 DEF Drawing
    <3>2. CASE d # c
      <4>1. action'[d] = action[d] /\ action[d].player \notin crossed
        BY <1>4, <1>5, <2>1, <3>2
      <4>2. action[d].player # p
        BY <1>4, <2>1, <4>1 DEF Drawing
      <4>. QED  BY <1>3, <1>5, <2>1, <4>1, <4>2 DEF CardsInv, OneStore
    <3>. QED  BY <3>1, <3>2
  <2>. QED  BY <1>4, <2>1 DEF OneStore
<1>10. HandsKnown'
  <2>1. \A q : Dealt(q)' = Dealt(q)
    BY <1>4 DEF Dealt
  <2>2. ASSUME NEW d \in CardCallers, action'[d].at = "store", NEW i \in DOMAIN action'[d].hand,
               NEW q, q = action'[d].player
        PROVE  action'[d].hand[i] \in Known(q)
    <3>1. CASE d = c
      <4>1. action'[d].hand[i] \in Dealt(p) /\ q = p
        BY <1>3, <1>5, <2>2, <3>1 DEF Dealt
      <4>. QED  BY <1>4, <4>1 DEF CardsInv, HandsKnown
    <3>2. CASE d # c
      <4>1. action'[d] = action[d]
        BY <1>5, <3>2
      <4>2. action[d].hand[i] \in Known(action[d].player)
        BY <2>2, <4>1 DEF CardsInv, HandsKnown
      <4>. QED  BY <2>2, <4>1, <4>2
    <3>. QED  BY <3>1, <3>2
  <2>3. ASSUME NEW d \in CardCallers, action'[d].at = "store", NEW i \in DOMAIN action'[d].hand
        PROVE  (action[d].hand[i] \in Known(action[d].player))'
    <3>1. PICK q : q = action'[d].player
      OBVIOUS
    <3>2. action'[d].hand[i] \in Known(q)'
      BY <1>7, <2>2, <2>3, <3>1
    <3>. QED  BY <3>1, <3>2 DEF Known, Told, Drawn
  <2>. QED  BY <1>7, <2>1, <2>3 DEF CardsInv, HandsKnown
<1>11. /\ Drawers({"deal", "store"})' = Drawers({"deal", "store"})
       /\ \A d \in Drawers({"deal", "store"}) : action'[d].card = action[d].card
  BY <1>1, <1>3, <1>4, <1>5 DEF Drawers
<1>12. OnTheWay' = OnTheWay /\ InDeck' = InDeck
  BY <1>4, <1>11 DEF OnTheWay, InDeck
<1>13. OnePlace'
  BY <1>4, <1>7, <1>11, <1>12 DEF CardsInv, OnePlace
<1>14. EveryCard'
  <2>1. HandCells' = HandCells /\ \A q : Held(q) \subseteq Held(q)'
    BY <1>4, <1>7 DEF HandCells, Held, Dealt
  <2>2. crossed' = {} => crossed = {}
    BY <1>4
  <2>. QED  BY <1>4, <1>12, <2>1, <2>2 DEF CardsInv, EveryCard
<1>. QED  BY <1>8, <1>9, <1>10, <1>13, <1>14

(***************************************************************************)
(* While a card is on its way, no hand can hold as many as the deck had.   *)
(***************************************************************************)
LEMMA RoomInTheHand ==
  ASSUME CardsInv, ~atOnce, roomState # "none", crossed = {}, OnTheWay # {}, NEW p \in CardPlayers
  PROVE  Len(hands[p]) + 1 \in Deck
<1>1. /\ IsFiniteSet(HandCells)
      /\ Len(deck) + Cardinality(OnTheWay) + Cardinality(HandCells) = DeckSize
  BY DEF CardsInv, EveryCard
<1>2. IsFiniteSet(Deck) /\ Cardinality(Deck) = DeckSize
  BY DeckIsFinite
<1>3. Cardinality(OnTheWay) \in Nat \ {0}
  <2>1. IsFiniteSet(OnTheWay)
    BY OnTheWayIsFinite DEF CardsInv
  <2>. QED  BY <2>1, FS_EmptySet, FS_CardinalityType
<1>4. Cardinality(HandCells) \in Nat /\ Len(deck) \in Nat /\ Len(hands[p]) \in Nat
      /\ DOMAIN hands[p] = 1..Len(hands[p])
  BY <1>1, FS_CardinalityType, LenProperties DEF CardsInv, CardTypes
<1>5. Cardinality(HandCells) < DeckSize
  BY <1>1, <1>3, <1>4, CardBounds
<1>6. ASSUME Len(hands[p]) >= DeckSize
      PROVE  FALSE
  <2>1. {p} \X Deck \subseteq HandCells
    BY <1>4, <1>6, CardBounds DEF HandCells, Deck
  <2>2. Cardinality({p} \X Deck) = DeckSize
    <3>1. IsFiniteSet({p}) /\ Cardinality({p}) = 1
      BY FS_Singleton
    <3>2. Cardinality({p} \X Deck) = Cardinality({p}) * Cardinality(Deck)
      BY <1>2, <3>1, FS_Product
    <3>. QED  BY <1>2, <3>1, <3>2, CardBounds
  <2>3. Cardinality({p} \X Deck) <= Cardinality(HandCells)
    BY <1>1, <2>1, FS_Subset
  <2>. QED  BY <1>4, <1>5, <2>2, <2>3, CardBounds
<1>. QED  BY <1>4, <1>6, CardBounds DEF Deck

(***************************************************************************)
(* A card is put at the end of a hand that was read.                       *)
(***************************************************************************)
LEMMA CardIsAppended ==
  ASSUME NEW p, NEW h \in Seq(Deck), NEW k \in Deck, hands'[p] = Append(h, k)
  PROVE  /\ Len(h) \in Nat /\ DOMAIN h = 1..Len(h) /\ DOMAIN hands'[p] = 1..(Len(h) + 1)
         /\ \A m : m \in Dealt(p)' <=> ((\E i \in DOMAIN h : m = h[i]) \/ m = k)
<1>1. /\ Len(h) \in Nat /\ DOMAIN h = 1..Len(h)
      /\ DOMAIN hands'[p] = 1..(Len(h) + 1)
      /\ \A i \in 1..Len(h) : hands'[p][i] = h[i]
      /\ hands'[p][Len(h) + 1] = k
  BY LenProperties, AppendProperties
<1>2. ASSUME NEW m
      PROVE  (\E i \in DOMAIN hands'[p] : m = hands'[p][i]) <=> ((\E i \in DOMAIN h : m = h[i]) \/ m = k)
  BY <1>1
<1>3. \A m : m \in Dealt(p)' <=> \E i \in DOMAIN hands'[p] : m = hands'[p][i]
  BY DEF Dealt
<1>. QED  BY <1>1, <1>2, <1>3

(***************************************************************************)
(* A hand is stored with the card that its player has drawn.               *)
(***************************************************************************)
LEMMA HandIsStored ==
  ASSUME CardsInv, NEW c \in CardCallers, StoreHand(c)
  PROVE  OneDraw' /\ OneStore' /\ OnePlace' /\ EveryCard' /\ HandsKnown'
<1>1. PICK p, k, h : p = action[c].player /\ k = action[c].card /\ h = action[c].hand
  OBVIOUS
<1>2. PICK y : y = [at |-> "state", player |-> p, card |-> k]
  OBVIOUS
<1>3. y.at = "state" /\ y.player = p /\ y.card = k
  BY <1>2
<1>4. /\ action[c].at = "store" /\ p \in CardPlayers /\ k \in Deck /\ h \in Seq(Deck)
      /\ UNCHANGED <<roomState, deck, events, crossed, atOnce>>
      /\ hands' = [hands EXCEPT ![p] = Append(h, k)]
  BY <1>1, StagesOfADraw DEF StoreHand, CardsInv
<1>5. action'[c] = y /\ \A d \in CardCallers \ {c} : action'[d] = action[d]
  BY <1>1, <1>2 DEF StoreHand, ActionGoes, CardsInv, CardTypes
<1>6. roomState # "none"
  BY <1>4 DEF CardsInv, BeforeTheRoom, NoAction
<1>7. hands'[p] = Append(h, k) /\ \A q \in CardPlayers \ {p} : hands'[q] = hands[q]
  BY <1>4 DEF CardsInv, CardTypes
<1>8. /\ \A m : m \in Dealt(p)' <=> ((\E i \in DOMAIN h : m = h[i]) \/ m = k)
      /\ Len(h) \in Nat /\ DOMAIN h = 1..Len(h) /\ DOMAIN hands'[p] = 1..(Len(h) + 1)
  BY <1>4, <1>7, CardIsAppended
<1>9. \A q \in CardPlayers \ {p} : Dealt(q)' = Dealt(q)
  BY <1>7, Zenon DEF Dealt
<1>10. \A q : Known(q)' = IF q = p THEN Known(q) \cup {k} ELSE Known(q)
  <2>. SUFFICES ASSUME NEW q  PROVE Known(q)' = IF q = p THEN Known(q) \cup {k} ELSE Known(q)
    OBVIOUS
  <2>1. Told(q)' = Told(q)
    BY <1>4 DEF Told
  <2>2. \A m : m \in Drawn(q) <=> m \in Deck /\ \E d \in CardCallers :
            action[d].at \in {"state", "events"} /\ action[d].player = q /\ action[d].card = m
    BY DEF Drawn, Drawers
  <2>3. \A m : m \in Drawn(q)' <=> m \in Deck /\ \E d \in CardCallers :
            action'[d].at \in {"state", "events"} /\ action'[d].player = q /\ action'[d].card = m
    BY DEF Drawn, Drawers
  <2>4. \A d \in CardCallers :
          action'[d].at \in {"state", "events"} <=> (action[d].at \in {"state", "events"} \/ d = c)
    BY <1>3, <1>4, <1>5
  <2>5. ASSUME NEW m
        PROVE  m \in Drawn(q)' <=> (m \in Drawn(q) \/ (q = p /\ m = k))
    <3>1. CASE q = p /\ m = k
      BY <1>3, <1>4, <1>5, <2>3, <3>1
    <3>2. CASE ~(q = p /\ m = k)
      <4>1. ASSUME NEW d \in CardCallers
            PROVE  (action'[d].at \in {"state", "events"} /\ action'[d].player = q /\ action'[d].card = m)
                   <=> (action[d].at \in {"state", "events"} /\ action[d].player = q /\ action[d].card = m)
        BY <1>3, <1>4, <1>5, <3>2
      <4>. QED  BY <2>2, <2>3, <3>2, <4>1
    <3>. QED  BY <3>1, <3>2
  <2>. QED  BY <2>1, <2>5 DEF Known
<1>11. \A d \in CardCallers : action'[d].at \in {"cut", "deal", "store"} => d # c /\ action'[d] = action[d]
  BY <1>3, <1>5
<1>12. OneDraw'
  BY <1>4, <1>11 DEF CardsInv, OneDraw
<1>13. OneStore'
  <2>1. ASSUME NEW d \in CardCallers, action'[d].at = "store", action'[d].player \notin crossed
        PROVE  /\ action'[d].hand = hands'[action'[d].player]
               /\ \A e \in CardCallers :
                    action'[e].at = "store" /\ action'[e].player = action'[d].player => e = d
    <3>1. d # c /\ action'[d] = action[d] /\ action[d].player \in CardPlayers
      BY <1>11, <2>1, StagesOfADraw DEF CardsInv
    <3>2. /\ action[d].hand = hands[action[d].player]
          /\ \A e \in CardCallers :
               action[e].at = "store" /\ action[e].player = action[d].player => e = d
      BY <2>1, <3>1 DEF CardsInv, OneStore
    <3>3. action[d].player # p
      BY <1>1, <1>4, <3>1, <3>2
    <3>4. hands'[action[d].player] = hands[action[d].player]
      BY <1>7, <3>1, <3>3
    <3>. QED  BY <1>11, <3>1, <3>2, <3>4
  <2>. QED  BY <1>4, <2>1 DEF OneStore
<1>14. HandsKnown'
  <2>1. ASSUME NEW q \in CardPlayers  PROVE Dealt(q)' \subseteq Known(q)'
    <3>1. CASE q = p
      <4>1. \A i \in DOMAIN h : h[i] \in Known(p)
        BY <1>1, <1>4 DEF CardsInv, HandsKnown
      <4>. QED  BY <1>8, <1>10, <3>1, <4>1
    <3>2. CASE q # p
      BY <1>9, <1>10, <3>2 DEF CardsInv, HandsKnown
    <3>. QED  BY <3>1, <3>2
  <2>2. ASSUME NEW d \in CardCallers, action'[d].at = "store", NEW i \in DOMAIN action'[d].hand
        PROVE  (action[d].hand[i] \in Known(action[d].player))'
    <3>1. PICK q : q = action'[d].player
      OBVIOUS
    <3>2. action'[d] = action[d]
      BY <1>11, <2>2
    <3>3. action[d].hand[i] \in Known(action[d].player)
      BY <2>2, <3>2 DEF CardsInv, HandsKnown
    <3>4. action'[d].hand[i] \in Known(q)
      BY <3>1, <3>2, <3>3
    <3>5. action'[d].hand[i] \in Known(q)'
      BY <1>10, <3>4
    <3>. QED  BY <3>1, <3>5 DEF Known, Told, Drawn
  <2>. QED  BY <2>1, <2>2 DEF HandsKnown
<1>. SUFFICES ASSUME ~atOnce  PROVE OnePlace' /\ EveryCard'
  BY <1>4, <1>12, <1>13, <1>14 DEF OnePlace, EveryCard
<1>15. /\ \A i, j \in DOMAIN deck : deck[i] = deck[j] => i = j
       /\ \A d, e \in Drawers({"deal", "store"}) : action[d].card = action[e].card => d = e
       /\ InDeck \cap OnTheWay = {}
       /\ \A q \in CardPlayers : Known(q) \cap (InDeck \cup OnTheWay) = {}
  BY DEF CardsInv, OnePlace
<1>16. /\ \A d : d \in Drawers({"deal", "store"})' <=> (d \in Drawers({"deal", "store"}) /\ d # c)
       /\ \A d \in Drawers({"deal", "store"})' : action'[d] = action[d]
       /\ c \in Drawers({"deal", "store"})
  BY <1>3, <1>4, <1>5 DEF Drawers
<1>17. OnTheWay' = OnTheWay \ {k} /\ k \in OnTheWay
  <2>1. k \in OnTheWay
    BY <1>1, <1>16 DEF OnTheWay
  <2>2. ASSUME NEW m  PROVE m \in OnTheWay' <=> (m \in OnTheWay /\ m # k)
    <3>1. m \in OnTheWay' <=> \E d \in Drawers({"deal", "store"})' : m = action'[d].card
      BY DEF OnTheWay
    <3>2. m \in OnTheWay <=> \E d \in Drawers({"deal", "store"}) : m = action[d].card
      BY DEF OnTheWay
    <3>. QED  BY <1>1, <1>15, <1>16, <3>1, <3>2
  <2>. QED  BY <2>1, <2>2
<1>18. InDeck' = InDeck
  BY <1>4 DEF InDeck
<1>19. OnePlace'
  <2>1. \A d, e \in Drawers({"deal", "store"})' : action'[d].card = action'[e].card => d = e
    BY <1>15, <1>16
  <2>2. k \notin InDeck /\ k \notin OnTheWay'
    BY <1>15, <1>17
  <2>3. \A q \in CardPlayers : Known(q)' \cap (InDeck' \cup OnTheWay') = {}
    BY <1>10, <1>15, <1>17, <1>18, <2>2
  <2>. QED  BY <1>4, <1>15, <1>17, <1>18, <2>1, <2>3 DEF OnePlace
<1>20. p \notin crossed => h = hands[p]
  BY <1>1, <1>4 DEF CardsInv, OneStore
<1>21. ASSUME NEW m \in Deck
       PROVE  m \in InDeck' \cup OnTheWay' \/ \E q \in CardPlayers : m \in Held(q)'
  <2>1. CASE m = k
    <3>1. k \in Held(p)'
      BY <1>8 DEF Held
    <3>. QED  BY <1>4, <2>1, <3>1
  <2>2. CASE m # k /\ m \in InDeck \cup OnTheWay
    BY <1>17, <1>18, <2>2
  <2>3. ASSUME NEW q \in CardPlayers, m \in Held(q)
        PROVE  m \in Held(q)'
    <3>1. CASE q \in crossed
      <4>1. m \in Known(q)
        BY <2>3, <3>1 DEF CardsInv, HandsKnown, Held
      <4>2. m \in Known(q)'
        BY <1>10, <4>1
      <4>. QED  BY <1>4, <3>1, <4>2 DEF Held
    <3>2. CASE q \notin crossed
      <4>1. m \in Dealt(q)
        BY <2>3, <3>2 DEF Held
      <4>2. m \in Dealt(q)'
        <5>1. CASE q = p
          <6>1. \E i \in DOMAIN h : m = h[i]
            BY <1>20, <3>2, <4>1, <5>1 DEF Dealt
          <6>. QED  BY <1>8, <5>1, <6>1
        <5>2. CASE q # p
          BY <1>9, <4>1, <5>2
        <5>. QED  BY <5>1, <5>2
      <4>. QED  BY <4>2 DEF Held
    <3>. QED  BY <3>1, <3>2
  <2>4. m \in InDeck \cup OnTheWay \/ \E q \in CardPlayers : m \in Held(q)
    BY <1>6 DEF CardsInv, EveryCard
  <2>. QED  BY <2>1, <2>2, <2>3, <2>4
<1>22. ASSUME crossed = {}
       PROVE  /\ IsFiniteSet(HandCells')
              /\ Len(deck) + Cardinality(OnTheWay') + Cardinality(HandCells') = DeckSize
  <2>1. /\ IsFiniteSet(HandCells)
        /\ Len(deck) + Cardinality(OnTheWay) + Cardinality(HandCells) = DeckSize
    BY <1>6, <1>22 DEF CardsInv, EveryCard
  <2>2. IsFiniteSet(OnTheWay) /\ Cardinality(OnTheWay) \in Nat
    BY OnTheWayIsFinite DEF CardsInv
  <2>3. Cardinality(OnTheWay') = Cardinality(OnTheWay) - 1
    <3>1. Cardinality(OnTheWay \ {k}) = Cardinality(OnTheWay) - 1
      BY <1>17, <2>2, FS_RemoveElement
    <3>. QED  BY <1>17, <3>1, Zenon
  <2>4. h = hands[p]
    BY <1>20, <1>22
  <2>. DEFINE w == <<p, Len(h) + 1>>
  <2>5. HandCells' = HandCells \cup {w} /\ w \notin HandCells
    <3>1. Len(h) + 1 \in Deck
      <4>1. OnTheWay # {} /\ Len(hands[p]) + 1 \in Deck
        BY <1>4, <1>6, <1>17, <1>22, RoomInTheHand
      <4>. QED  BY <2>4, <4>1
    <3>2. \A q \in CardPlayers, i \in Deck :
            i \in DOMAIN hands'[q] <=> (i \in DOMAIN hands[q] \/ (q = p /\ i = Len(h) + 1))
      BY <1>7, <1>8, <2>4
    <3>3. Len(h) + 1 \notin DOMAIN hands[p]
      BY <1>8, <2>4
    <3>4. \A g \in CardPlayers \X Deck :
            /\ g[1] \in CardPlayers /\ g[2] \in Deck
            /\ g = w <=> (g[1] = p /\ g[2] = Len(h) + 1)
      BY <1>4, <3>1
    <3>5. w \in CardPlayers \X Deck
      BY <1>4, <3>1
    <3>6. \A g \in CardPlayers \X Deck :
            g[2] \in DOMAIN hands'[g[1]] <=> (g[2] \in DOMAIN hands[g[1]] \/ g = w)
      BY <3>2, <3>4
    <3>7. HandCells' = HandCells \cup {w}
      <4>. HIDE DEF w
      <4>. QED  BY <3>5, <3>6 DEF HandCells
    <3>. QED  BY <3>3, <3>7 DEF HandCells
  <2>. HIDE DEF w
  <2>6. IsFiniteSet(HandCells') /\ Cardinality(HandCells') = Cardinality(HandCells) + 1
    <3>1. IsFiniteSet(HandCells \cup {w}) /\ Cardinality(HandCells \cup {w}) = Cardinality(HandCells) + 1
      BY <2>1, <2>5, FS_AddElement
    <3>. QED  BY <2>5, <3>1, Zenon
  <2>7. Cardinality(HandCells) \in Nat /\ Len(deck) \in Nat
    BY <2>1, FS_CardinalityType, LenProperties DEF CardsInv, CardTypes
  <2>. QED  BY <2>1, <2>2, <2>3, <2>6, <2>7
<1>23. EveryCard'
  BY <1>4, <1>21, <1>22 DEF EveryCard
<1>. QED  BY <1>19, <1>23

(***************************************************************************)
(* The room is told of a draw.                                             *)
(***************************************************************************)
LEMMA DrawIsTold ==
  ASSUME CardsInv, NEW c \in CardCallers, AddEvents(c)
  PROVE  OneDraw' /\ OneStore' /\ OnePlace' /\ EveryCard' /\ HandsKnown'
<1>1. /\ action[c].at = "events" /\ UNCHANGED <<roomState, deck, hands, crossed, atOnce>>
      /\ events' = events \o Events(action[c]) /\ NoAction.at = "idle"
  BY DEF AddEvents, NoAction
<1>2. action'[c] = NoAction /\ \A d \in CardCallers \ {c} : action'[d] = action[d]
  BY DEF AddEvents, ActionReturns, ActionGoes, CardsInv, CardTypes
<1>3. PICK p, k : p = action[c].player /\ k = action[c].card
  OBVIOUS
<1>4. p \in CardPlayers /\ k \in 0..DeckSize /\ (k \in Deck <=> k # 0)
  <2>1. p \in CardPlayers /\ k \in 0..DeckSize
    BY <1>1, <1>3, StagesOfADraw DEF CardsInv
  <2>. QED  BY <2>1, CardBounds DEF Deck
<1>5. ASSUME NEW q, NEW m
      PROVE  m \in Told(q)' <=> (m \in Told(q) \/ (q = p /\ m = k /\ k # 0))
  <2>1. events \in Seq([player : CardPlayers, card : Deck])
    BY DEF CardsInv, CardTypes
  <2>2. m \in Told(q) <=> \E i \in DOMAIN events : events[i].player = q /\ m = events[i].card
    BY DEF Told
  <2>3. m \in Told(q)' <=> \E i \in DOMAIN events' : events'[i].player = q /\ m = events'[i].card
    BY DEF Told
  <2>4. CASE k = 0
    <3>1. events' = events \o <<>>
      BY <1>1, <1>3, <2>4 DEF Events
    <3>2. events' = events
      BY <2>1, <3>1, ConcatEmptySeq
    <3>. QED  BY <2>2, <2>3, <2>4, <3>2
  <2>5. CASE k # 0
    <3>. DEFINE e == [player |-> p, card |-> k]
    <3>1. e \in [player : CardPlayers, card : Deck] /\ e.player = p /\ e.card = k
      BY <1>4, <2>5
    <3>2. events' = events \o <<e>>
      BY <1>1, <1>3, <2>5 DEF Events
    <3>. HIDE DEF e
    <3>3. events' = Append(events, e)
      BY <2>1, <3>1, <3>2
    <3>4. /\ Len(events) \in Nat /\ DOMAIN events = 1..Len(events)
          /\ DOMAIN events' = 1..(Len(events) + 1) /\ events'[Len(events) + 1] = e
          /\ \A i \in 1..Len(events) : events'[i] = events[i]
      BY <2>1, <3>1, <3>3, AppendProperties, LenProperties
    <3>5. (\E i \in DOMAIN events' : events'[i].player = q /\ m = events'[i].card)
          <=> ((\E i \in DOMAIN events : events[i].player = q /\ m = events[i].card)
               \/ (e.player = q /\ m = e.card))
      BY <3>4
    <3>. QED  BY <2>2, <2>3, <2>5, <3>1, <3>5
  <2>. QED  BY <2>4, <2>5
<1>6. ASSUME NEW q
      PROVE  Known(q)' = Known(q)
  <2>1. \A m : m \in Drawn(q) <=> m \in Deck /\ \E d \in CardCallers :
            action[d].at \in {"state", "events"} /\ action[d].player = q /\ action[d].card = m
    BY DEF Drawn, Drawers
  <2>2. \A m : m \in Drawn(q)' <=> m \in Deck /\ \E d \in CardCallers :
            action'[d].at \in {"state", "events"} /\ action'[d].player = q /\ action'[d].card = m
    BY DEF Drawn, Drawers
  <2>3. \A d \in CardCallers : action'[d].at \in {"state", "events"} => action'[d] = action[d]
    BY <1>1, <1>2
  <2>4. \A d \in CardCallers \ {c} : action[d].at \in {"state", "events"} => action'[d] = action[d]
    BY <1>2
  <2>5. ASSUME NEW m  PROVE m \in Known(q)' <=> m \in Known(q)
    <3>1. m \in Drawn(q)' => m \in Drawn(q)
      BY <2>1, <2>2, <2>3
    <3>2. m \in Drawn(q) => m \in Drawn(q)' \/ (q = p /\ m = k /\ k # 0)
      BY <1>3, <1>4, <2>1, <2>2, <2>4
    <3>3. q = p /\ m = k /\ k # 0 => m \in Drawn(q)
      BY <1>1, <1>3, <1>4, <2>1
    <3>. QED  BY <1>5, <3>1, <3>2, <3>3 DEF Known
  <2>. QED  BY <2>5
<1>7. \A d \in CardCallers : action'[d].at = "cut" => action'[d] = action[d]
  BY <1>1, <1>2
<1>8. OneDraw'
  BY <1>1, <1>7 DEF CardsInv, OneDraw
<1>9. \A d \in CardCallers :
        action[d].at \in {"deal", "store"} \/ action'[d].at \in {"deal", "store"}
          => action'[d] = action[d]
  BY <1>1, <1>2
<1>. QED  BY <1>1, <1>6, <1>8, <1>9, CardsStay

(***************************************************************************)
(* The deck of a new room has every card once.                             *)
(***************************************************************************)
LEMMA RoomIsMade ==
  ASSUME CardsInv, CreateRoom
  PROVE  OneDraw' /\ OneStore' /\ OnePlace' /\ EveryCard' /\ HandsKnown'
<1>1. /\ roomState = "none" /\ deck' = [i \in Deck |-> i]
      /\ UNCHANGED <<hands, events, action, crossed, atOnce>>
  BY DEF CreateRoom
<1>2. /\ \A p \in CardPlayers : hands[p] = <<>>
      /\ \A c \in CardCallers : action[c] = NoAction
      /\ events = <<>>
  BY <1>1 DEF CardsInv, BeforeTheRoom
<1>3. \A c \in CardCallers : action'[c].at = "idle"
  BY <1>1, <1>2 DEF NoAction
<1>4. Drawers({"deal", "store"})' = {} /\ Drawers({"state", "events"})' = {}
  BY <1>3 DEF Drawers
<1>5. OnTheWay' = {} /\ InDeck' = Deck
  BY <1>1, <1>4 DEF OnTheWay, InDeck
<1>6. \A p \in CardPlayers : DOMAIN hands'[p] = {} /\ Dealt(p)' = {} /\ Known(p)' = {}
  <2>1. DOMAIN <<>> = {}
    BY EmptySeq
  <2>2. events' = <<>> /\ \A p \in CardPlayers : hands'[p] = <<>>
    BY <1>1, <1>2
  <2>3. \A p \in CardPlayers : Drawn(p)' = {}
    BY <1>4 DEF Drawn
  <2>. QED  BY <2>1, <2>2, <2>3 DEF Dealt, Known, Told
<1>7. Len(deck') = DeckSize
  BY <1>1, CardBounds DEF Deck
<1>8. HandCells' = {}
  BY <1>6 DEF HandCells
<1>9. EveryCard'
  <2>1. IsFiniteSet({}) /\ Cardinality({}) = 0
    BY FS_EmptySet
  <2>2. IsFiniteSet(HandCells') /\ Cardinality(HandCells') = 0 /\ Cardinality(OnTheWay') = 0
    BY <1>5, <1>8, <2>1, Zenon
  <2>. QED  BY <1>5, <1>7, <2>2, CardBounds DEF EveryCard
<1>10. OnePlace'
  BY <1>1, <1>4, <1>5, <1>6 DEF OnePlace
<1>11. OneDraw' /\ OneStore' /\ HandsKnown'
  BY <1>3, <1>6 DEF OneDraw, OneStore, HandsKnown
<1>. QED  BY <1>9, <1>10, <1>11

(***************************************************************************)
(* Every step of the card rooms keeps their invariant.                     *)
(***************************************************************************)
LEMMA CardsSteps ==
  ASSUME CardsInv, CardsNext
  PROVE  CardsInv'
<1>1. CardTypes'
  BY CardsKeepTypes DEF CardsInv
<1>2. ASSUME UNCHANGED <<deck, hands, events, action, atOnce, crossed>>,
             roomState' # "none" => roomState # "none"
      PROVE  OneDraw' /\ OneStore' /\ OnePlace' /\ EveryCard' /\ HandsKnown'
  <2>1. OneDraw'
    BY <1>2 DEF CardsInv, OneDraw
  <2>2. \A q \in CardPlayers : Known(q)' = Known(q)
    BY <1>2 DEF Known, Told, Drawn, Drawers
  <2>. QED  BY <1>2, <2>1, <2>2, CardsStay
<1>. SUFFICES BeforeTheRoom' /\ OneDraw' /\ OneStore' /\ OnePlace' /\ EveryCard' /\ HandsKnown'
  BY <1>1 DEF CardsInv
<1>3. ASSUME NEW c \in CardCallers, action[c].at # "idle"
      PROVE  roomState # "none"
  BY <1>3 DEF CardsInv, BeforeTheRoom, NoAction
<1>4. CASE CreateRoom
  <2>1. BeforeTheRoom'
    BY <1>4 DEF CreateRoom, BeforeTheRoom
  <2>. QED  BY <1>4, <2>1, RoomIsMade
<1>5. CASE Begin
  <2>1. BeforeTheRoom'
    BY <1>5 DEF Begin, BeforeTheRoom
  <2>. QED  BY <1>2, <1>5, <2>1 DEF Begin
<1>6. ASSUME NEW p \in CardPlayers, JoinRoom(p)
      PROVE  BeforeTheRoom' /\ OneDraw' /\ OneStore' /\ OnePlace' /\ EveryCard' /\ HandsKnown'
  <2>1. BeforeTheRoom'
    BY <1>6 DEF JoinRoom, BeforeTheRoom
  <2>. QED  BY <1>2, <1>6, <2>1 DEF JoinRoom
<1>7. ASSUME NEW p \in CardPlayers, LeaveRoom(p)
      PROVE  BeforeTheRoom' /\ OneDraw' /\ OneStore' /\ OnePlace' /\ EveryCard' /\ HandsKnown'
  <2>1. roomState # "none"
    BY <1>7 DEF LeaveRoom, RemovePlayer, CardsInv, BeforeTheRoom
  <2>2. BeforeTheRoom'
    BY <1>7, <2>1 DEF LeaveRoom, RemovePlayer, BeforeTheRoom
  <2>. QED  BY <1>2, <1>7, <2>1, <2>2 DEF LeaveRoom
<1>8. CASE MapRace
  <2>1. BeforeTheRoom'
    BY <1>8 DEF MapRace, CardsInv, BeforeTheRoom
  <2>. QED  BY <1>2, <1>8, <2>1 DEF MapRace
<1>9. ASSUME NEW c \in CardCallers, NEW p \in CardPlayers, FindPlayer(c, p)
      PROVE  BeforeTheRoom' /\ OneDraw' /\ OneStore' /\ OnePlace' /\ EveryCard' /\ HandsKnown'
  <2>1. roomState # "none" /\ roomState' = roomState
    BY <1>9 DEF FindPlayer, CardsInv, BeforeTheRoom
  <2>2. PICK y : y = [at |-> "validate", player |-> p]
    OBVIOUS
  <2>3. y.at = "validate" /\ action[c].at = "idle" /\ action' = [action EXCEPT ![c] = y]
        /\ UNCHANGED <<deck, hands, events, crossed, atOnce>>
    BY <1>9, <2>2 DEF FindPlayer, ActionGoes, NoAction
  <2>4. OneDraw' /\ OneStore' /\ OnePlace' /\ EveryCard' /\ HandsKnown'
    BY <2>1, <2>3, DrawMoves
  <2>. QED  BY <2>1, <2>4 DEF BeforeTheRoom
<1>10. ASSUME NEW c \in CardCallers, ValidateDraw(c)
       PROVE  BeforeTheRoom' /\ OneDraw' /\ OneStore' /\ OnePlace' /\ EveryCard' /\ HandsKnown'
  <2>1. /\ action[c].at = "validate" /\ roomState' = roomState
        /\ UNCHANGED <<deck, hands, events, crossed, atOnce>>
    BY <1>10 DEF ValidateDraw
  <2>2. roomState # "none"
    BY <1>3, <2>1
  <2>3. PICK y : action' = [action EXCEPT ![c] = y] /\ y.at \in {"idle", "take"}
    <3>1. PICK z : z = [action[c] EXCEPT !.at = "take"]
      OBVIOUS
    <3>2. action[c] = [at |-> "validate", player |-> action[c].player]
      BY <2>1, StagesOfADraw DEF CardsInv
    <3>3. z.at = "take"
      BY <3>1, <3>2
    <3>. QED  BY <1>10, <3>1, <3>3 DEF ValidateDraw, ActionReturns, ActionGoes, NoAction
  <2>4. OneDraw' /\ OneStore' /\ OnePlace' /\ EveryCard' /\ HandsKnown'
    BY <2>1, <2>2, <2>3, DrawMoves
  <2>. QED  BY <2>1, <2>2, <2>4 DEF BeforeTheRoom
<1>11. ASSUME NEW c \in CardCallers, TakeCard(c)
       PROVE  BeforeTheRoom' /\ OneDraw' /\ OneStore' /\ OnePlace' /\ EveryCard' /\ HandsKnown'
  <2>1. /\ action[c].at = "take" /\ roomState' = roomState
        /\ UNCHANGED <<deck, hands, events, crossed>>
        /\ atOnce' = (atOnce \/ \E d \in CardCallers : action[d].at = "cut")
    BY <1>11 DEF TakeCard
  <2>2. roomState # "none" /\ BeforeTheRoom'
    BY <1>3, <2>1 DEF BeforeTheRoom
  <2>3. CASE deck = <<>>
    <3>1. PICK y : y = [at |-> "state", player |-> action[c].player, card |-> 0]
      OBVIOUS
    <3>2. y.at = "state" /\ y.card = 0 /\ action' = [action EXCEPT ![c] = y]
      BY <1>11, <2>3, <3>1 DEF TakeCard, ActionGoes
    <3>3. OneDraw' /\ OneStore' /\ OnePlace' /\ EveryCard' /\ HandsKnown'
      BY <2>1, <2>2, <3>2, DrawMoves
    <3>. QED  BY <2>2, <3>3
  <2>4. CASE deck # <<>>
    <3>1. PICK y : y = [at |-> "cut", player |-> action[c].player, card |-> Head(deck)]
      OBVIOUS
    <3>2. y.at = "cut" /\ y.card = Head(deck) /\ action' = [action EXCEPT ![c] = y]
      BY <1>11, <2>4, <3>1 DEF TakeCard, ActionGoes
    <3>3. action'[c] = y /\ \A d \in CardCallers \ {c} : action'[d] = action[d]
      BY <3>2 DEF CardsInv, CardTypes
    <3>4. OneDraw'
      <4>. SUFFICES ASSUME ~atOnce', NEW e \in CardCallers, action'[e].at = "cut"
                    PROVE  /\ deck' # <<>> /\ action'[e].card = Head(deck')
                           /\ \A d \in CardCallers : action'[d].at = "cut" => d = e
        BY DEF OneDraw
      <4>1. \A d \in CardCallers : action[d].at # "cut"
        BY <2>1
      <4>2. \A d \in CardCallers : action'[d].at = "cut" => d = c
        BY <3>3, <4>1
      <4>3. e = c
        BY <4>2
      <4>. QED  BY <2>1, <2>4, <3>2, <3>3, <4>2, <4>3
    <3>5. \A q : Known(q)' = Known(q)
      <4>1. \A d \in CardCallers : action[d].at \in {"state", "events"} =>
               /\ action'[d].at \in {"state", "events"}
               /\ action'[d].player = action[d].player /\ action'[d].card = action[d].card
        BY <2>1, <3>3
      <4>2. \A d \in CardCallers : action'[d].at \in {"state", "events"} =>
               action[d].at \in {"state", "events"}
        BY <3>2, <3>3
      <4>. QED  BY <2>1, <4>1, <4>2, KnownStays
    <3>6. \A d \in CardCallers :
            action[d].at \in {"deal", "store"} \/ action'[d].at \in {"deal", "store"}
              => action'[d] = action[d]
      BY <2>1, <3>2, <3>3
    <3>. QED  BY <2>1, <2>2, <3>4, <3>5, <3>6, CardsStay
  <2>. QED  BY <2>3, <2>4
<1>12. ASSUME NEW c \in CardCallers, CutDeck(c)
       PROVE  BeforeTheRoom' /\ OneDraw' /\ OneStore' /\ OnePlace' /\ EveryCard' /\ HandsKnown'
  <2>1. action[c].at = "cut" /\ UNCHANGED <<roomState, seated, hands, events, crossed, atOnce>>
    BY <1>12 DEF CutDeck
  <2>2. roomState # "none" /\ BeforeTheRoom'
    BY <1>3, <2>1 DEF BeforeTheRoom
  <2>3. CASE deck # <<>>
    BY <1>12, <2>2, <2>3, DeckIsCut
  <2>4. CASE deck = <<>>
    <3>1. UNCHANGED <<deck, action>>
      BY <1>12, <2>4 DEF CutDeck
    <3>. QED  BY <1>2, <2>1, <2>2, <3>1
  <2>. QED  BY <2>3, <2>4
<1>13. ASSUME NEW c \in CardCallers, ReadHand(c) \/ StoreHand(c)
       PROVE  BeforeTheRoom' /\ OneDraw' /\ OneStore' /\ OnePlace' /\ EveryCard' /\ HandsKnown'
  <2>1. action[c].at \in {"deal", "store"} /\ roomState' = roomState
    BY <1>13 DEF ReadHand, StoreHand
  <2>2. BeforeTheRoom'
    BY <1>3, <2>1 DEF BeforeTheRoom
  <2>. QED  BY <1>13, <2>2, HandIsRead, HandIsStored
<1>14. ASSUME NEW c \in CardCallers, NextState(c)
       PROVE  BeforeTheRoom' /\ OneDraw' /\ OneStore' /\ OnePlace' /\ EveryCard' /\ HandsKnown'
  <2>1. /\ action[c].at = "state" /\ roomState' = "waiting"
        /\ UNCHANGED <<deck, hands, events, crossed, atOnce>>
    BY <1>14 DEF NextState
  <2>2. roomState # "none" /\ BeforeTheRoom'
    BY <1>3, <2>1 DEF BeforeTheRoom
  <2>3. PICK y : y = [action[c] EXCEPT !.at = "events"]
    OBVIOUS
  <2>4. y.at = "events" /\ y.card = action[c].card /\ y.player = action[c].player
    <3>1. action[c] \in CardActions
      BY DEF CardsInv, CardTypes
    <3>. QED  BY <2>1, <2>3, <3>1 DEF CardActions, NoAction
  <2>5. action' = [action EXCEPT ![c] = y]
    BY <1>14, <2>3 DEF NextState, ActionGoes
  <2>. QED  BY <2>1, <2>2, <2>4, <2>5, DrawMoves
<1>15. ASSUME NEW c \in CardCallers, AddEvents(c)
       PROVE  BeforeTheRoom' /\ OneDraw' /\ OneStore' /\ OnePlace' /\ EveryCard' /\ HandsKnown'
  <2>1. action[c].at = "events" /\ UNCHANGED roomState
    BY <1>15 DEF AddEvents
  <2>2. BeforeTheRoom'
    BY <1>3, <2>1 DEF BeforeTheRoom
  <2>. QED  BY <1>15, <2>2, DrawIsTold
<1>. QED  BY <1>4, <1>5, <1>6, <1>7, <1>8, <1>9, <1>10, <1>11, <1>12, <1>13, <1>14, <1>15 DEF CardsNext

(***************************************************************************)
(* The invariant has the types and what CardsAddUp says.                   *)
(***************************************************************************)
LEMMA CardsFollow == CardsInv => CardsTypeOK /\ CardsAddUp
<1>. SUFFICES ASSUME CardsInv  PROVE CardsTypeOK /\ CardsAddUp
  OBVIOUS
<1>1. \A c \in CardCallers :
        action[c].at \in {"idle", "validate", "take", "cut", "deal", "store", "state", "events"}
  BY StagesOfADraw DEF CardsInv
<1>2. CardsTypeOK
  BY <1>1 DEF CardsInv, CardTypes, CardsTypeOK
<1>3. \A p \in CardPlayers : Dealt(p) \subseteq Known(p) /\ Known(p) \subseteq Deck
  <2>1. \A i \in DOMAIN events : events[i].card \in Deck
    <3>1. events \in Seq([player : CardPlayers, card : Deck])
      BY DEF CardsInv, CardTypes
    <3>2. \A i \in DOMAIN events : events[i] \in [player : CardPlayers, card : Deck]
      BY <3>1, ElementOfSeq, LenProperties
    <3>. QED  BY <3>2
  <2>2. \A p : Told(p) \subseteq Deck /\ Drawn(p) \subseteq Deck
    BY <2>1 DEF Told, Drawn
  <2>. QED  BY <2>2 DEF CardsInv, HandsKnown, Known
<1>4. ASSUME ~atOnce, roomState # "none"
      PROVE  Deck = InDeck \cup OnTheWay \cup (UNION {Dealt(p) : p \in CardPlayers})
                      \cup (UNION {Told(p) \cup Drawn(p) : p \in crossed})
  <2>1. InDeck \subseteq Deck /\ OnTheWay \subseteq Deck
    <3>1. deck \in Seq(Deck)
      BY DEF CardsInv, CardTypes
    <3>2. InDeck \subseteq Deck
      BY <3>1, ElementOfSeq, LenProperties DEF InDeck
    <3>. QED  BY <3>2, OnTheWayIsFinite DEF CardsInv
  <2>. DEFINE V == UNION {Dealt(p) : p \in CardPlayers}
              W == UNION {Told(p) \cup Drawn(p) : p \in crossed}
  <2>4. \A m : m \in V <=> \E p \in CardPlayers : m \in Dealt(p)
    OBVIOUS
  <2>5. \A m : m \in W <=> \E p \in crossed : m \in Known(p)
    BY DEF Known
  <2>. HIDE DEF V, W
  <2>6. crossed \subseteq CardPlayers
    BY DEF CardsInv, CardTypes
  <2>7. V \subseteq Deck /\ W \subseteq Deck
    BY <1>3, <2>4, <2>5, <2>6
  <2>8. \A m \in Deck : m \in InDeck \cup OnTheWay \cup V \cup W
    BY <1>4, <2>4, <2>5 DEF CardsInv, EveryCard, Held
  <2>9. Deck = InDeck \cup OnTheWay \cup V \cup W
    BY <2>1, <2>7, <2>8
  <2>. QED  BY <2>9 DEF V, W
<1>5. CardsAddUp
  BY <1>3, <1>4 DEF CardsInv, EveryCard, Known, CardsAddUp
<1>. QED  BY <1>2, <1>5

-----------------------------------------------------------------------------
(* MessageQueue: the copies of the messages and the calls of Publish.      *)
CopyStates == {"none", "waiting", "busy", "done", "dropped"}
Copies == [Nsqds -> [QueueNodes -> [Messages -> CopyStates]]]
Sendings ==
  {NoSending} \cup [at : Nsqds, msg : Messages, by : QueueNodes, failed : SUBSET Nsqds]

QueueTypes ==
  /\ balanced \in BOOLEAN /\ failover \in BOOLEAN
  /\ target \in [Messages -> QueueNodes \cup {Everyone}] /\ command \in [Messages -> Commands]
  /\ qnode \in [QueueNodes -> [at : {"new", "open", "closing", "closed"}, current : 0..(NsqdCount - 1)]]
  /\ handlers \in [QueueNodes -> {{}, Registered}] /\ acked \subseteq Messages
  /\ channels \in [Nsqds -> SUBSET QueueNodes] /\ kept \in [Nsqds -> SUBSET Messages]
  /\ attempts \in [Nsqds -> [QueueNodes -> [Messages -> 0..MaxAttempts]]]
  /\ linked \in [QueueNodes -> SUBSET Nsqds] /\ ran \in [QueueNodes -> SUBSET Messages]
  /\ sending \in [QueuePublishers -> Sendings]
  /\ qFaults \in 0..MaxQueueFaults /\ qStarts \in 0..MaxQueueStarts
(* A node with a consumer has its handlers.                                *)
HandlersFirst ==
  \A n \in QueueNodes : qnode[n].at \in {"open", "closing"} => handlers[n] = Registered
(* What a node has carried out, some nsqd has: it is not published again.  *)
RanAreKept == \A n \in QueueNodes : \A m \in ran[n] : \E d \in Nsqds : m \in kept[d]
CopiesKept ==
  /\ copies \in Copies
  /\ \A d \in Nsqds, n \in QueueNodes, m \in Messages :
       copies[d][n][m] # "none" => m \in kept[d] /\ n \in channels[d]
OneAtATime ==
  \A n \in QueueNodes, d, e \in Nsqds, m, k \in Messages :
    copies[d][n][m] = "busy" /\ copies[e][n][k] = "busy" => d = e /\ m = k
QueueInv == QueueTypes /\ HandlersFirst /\ CopiesKept /\ OneAtATime /\ RanAreKept /\ CommandsAreRun

(***************************************************************************)
(* MessageQueue starts in its invariant.                                   *)
(***************************************************************************)
LEMMA QueueStarts == QueueInit => QueueInv
<1>. SUFFICES ASSUME QueueInit  PROVE QueueInv
  OBVIOUS
<1>1. \A d \in Nsqds, n \in QueueNodes, m \in Messages : copies[d][n][m] = "none"
  BY DEF QueueInit
<1>2. copies \in Copies
  <2>1. [n \in QueueNodes |-> [m \in Messages |-> "none"]] \in [QueueNodes -> [Messages -> CopyStates]]
    BY DEF CopyStates
  <2>2. copies = [d \in Nsqds |-> [n \in QueueNodes |-> [m \in Messages |-> "none"]]]
    BY DEF QueueInit
  <2>. QED  BY <2>1, <2>2 DEF Copies
<1>3. attempts \in [Nsqds -> [QueueNodes -> [Messages -> 0..MaxAttempts]]]
  <2>1. 0 \in 0..MaxAttempts
    BY QueueBounds
  <2>2. attempts = [d \in Nsqds |-> [n \in QueueNodes |-> [m \in Messages |-> 0]]]
    BY DEF QueueInit
  <2>. QED  BY <2>1, <2>2
<1>4. qnode \in [QueueNodes -> [at : {"new", "open", "closing", "closed"}, current : 0..(NsqdCount - 1)]]
      /\ \A n \in QueueNodes : qnode[n].at = "new"
  BY QueueBounds DEF QueueInit, NewManager
<1>5. sending \in [QueuePublishers -> Sendings]
  BY DEF QueueInit, Sendings
<1>6. /\ target \in [Messages -> QueueNodes \cup {Everyone}] /\ balanced \in BOOLEAN /\ failover \in BOOLEAN
      /\ command \in [Messages -> Commands]
      /\ handlers \in [QueueNodes -> {{}, Registered}] /\ acked = {}
  <2>. DEFINE first == CHOOSE x \in Commands : TRUE
  <2>1. first \in Commands
    BY QueueBounds
  <2>2. command = [m \in Messages |-> first]
    BY DEF QueueInit
  <2>. HIDE DEF first
  <2>. QED  BY <2>1, <2>2 DEF QueueInit
<1>7. /\ channels \in [Nsqds -> SUBSET QueueNodes] /\ kept \in [Nsqds -> SUBSET Messages]
      /\ linked \in [QueueNodes -> SUBSET Nsqds] /\ ran \in [QueueNodes -> SUBSET Messages]
  BY DEF QueueInit
<1>8. qFaults \in 0..MaxQueueFaults /\ qStarts \in 0..MaxQueueStarts
  <2>1. qFaults = 0 /\ qStarts = 0
    BY DEF QueueInit
  <2>. QED  BY <2>1, QueueBounds
<1>9. QueueTypes
  BY <1>3, <1>4, <1>5, <1>6, <1>7, <1>8 DEF QueueTypes
<1>. QED  BY <1>1, <1>2, <1>4, <1>6, <1>9
          DEF QueueInv, HandlersFirst, CopiesKept, OneAtATime, RanAreKept, CommandsAreRun, QueueInit

(***************************************************************************)
(* What the operators that write to the copies do.                         *)
(***************************************************************************)
LEMMA CopyMarked ==
  ASSUME copies \in Copies, NEW d \in Nsqds, NEW n \in QueueNodes, NEW m \in Messages,
         NEW s \in CopyStates, Marks(d, n, m, s)
  PROVE  /\ copies' \in Copies
         /\ \A e \in Nsqds, k \in QueueNodes, l \in Messages :
              copies'[e][k][l] = IF e = d /\ k = n /\ l = m THEN s ELSE copies[e][k][l]
BY DEF Copies, Marks

(***************************************************************************)
(* A node's copies in work are given back.                                 *)
(***************************************************************************)
LEMMA CopiesGivenBack ==
  ASSUME copies \in Copies, NEW n \in QueueNodes, copies' = GivenBack(n)
  PROVE  /\ copies' \in Copies
         /\ \A e \in Nsqds, k \in QueueNodes, l \in Messages :
              copies'[e][k][l] = IF k = n /\ copies[e][k][l] = "busy" THEN "waiting" ELSE copies[e][k][l]
<1>1. ASSUME NEW e \in Nsqds
      PROVE  /\ copies'[e] \in [QueueNodes -> [Messages -> CopyStates]]
             /\ \A k \in QueueNodes, l \in Messages :
                  copies'[e][k][l] =
                    IF k = n /\ copies[e][k][l] = "busy" THEN "waiting" ELSE copies[e][k][l]
  <2>. DEFINE back == [m \in Messages |-> IF copies[e][n][m] = "busy" THEN "waiting" ELSE copies[e][n][m]]
  <2>1. copies[e] \in [QueueNodes -> [Messages -> CopyStates]]
    BY DEF Copies
  <2>2. copies'[e] = [copies[e] EXCEPT ![n] = back]
    BY DEF GivenBack
  <2>3. back \in [Messages -> CopyStates]
    BY <2>1 DEF CopyStates
  <2>4. \A l \in Messages : back[l] = IF copies[e][n][l] = "busy" THEN "waiting" ELSE copies[e][n][l]
    OBVIOUS
  <2>. HIDE DEF back
  <2>. QED  BY <2>1, <2>2, <2>3, <2>4
<1>2. copies' \in Copies
  BY <1>1 DEF Copies, GivenBack
<1>. QED  BY <1>1, <1>2

(***************************************************************************)
(* An nsqd keeps a message and copies it to its channels.                  *)
(***************************************************************************)
LEMMA MessageKept ==
  ASSUME QueueInv, NEW d \in Nsqds, NEW m \in Messages, Keep(d, m)
  PROVE  /\ copies' \in Copies /\ kept' \in [Nsqds -> SUBSET Messages]
         /\ \A e \in Nsqds : kept'[e] = IF e = d THEN kept[e] \cup {m} ELSE kept[e]
         /\ \A e \in Nsqds, k \in QueueNodes, l \in Messages :
              copies'[e][k][l] =
                IF e = d /\ l = m /\ k \in channels[e] THEN "waiting" ELSE copies[e][k][l]
<1>. DEFINE new == [n \in QueueNodes |-> IF n \in channels[d] THEN [copies[d][n] EXCEPT ![m] = "waiting"]
                                         ELSE copies[d][n]]
<1>1. copies \in Copies /\ kept \in [Nsqds -> SUBSET Messages]
  BY DEF QueueInv, QueueTypes, CopiesKept
<1>2. kept' \in [Nsqds -> SUBSET Messages]
      /\ \A e \in Nsqds : kept'[e] = IF e = d THEN kept[e] \cup {m} ELSE kept[e]
  BY <1>1 DEF Keep
<1>3. copies' = [copies EXCEPT ![d] = new]
  BY DEF Keep
<1>4. new \in [QueueNodes -> [Messages -> CopyStates]]
  BY <1>1 DEF Copies, CopyStates
<1>5. \A k \in QueueNodes, l \in Messages :
        new[k][l] = IF l = m /\ k \in channels[d] THEN "waiting" ELSE copies[d][k][l]
  BY <1>1 DEF Copies
<1>. HIDE DEF new
<1>. QED  BY <1>1, <1>2, <1>3, <1>4, <1>5 DEF Copies

(***************************************************************************)
(* A node registers its handlers, subscribes or begins to close.           *)
(***************************************************************************)
LEMMA NodeTurns ==
  ASSUME QueueInv, NEW n \in QueueNodes, RegisterHandlers(n) \/ Subscribe(n) \/ CloseQueue(n)
  PROVE  QueueInv'
<1>1. /\ UNCHANGED <<balanced, failover, target, command, channels, kept, copies, attempts, linked, sending,
                     acked, ran, qStarts>>
      /\ handlers' \in [QueueNodes -> {{}, Registered}]
      /\ \A k \in QueueNodes : k # n => handlers'[k] = handlers[k]
      /\ qFaults' = qFaults \/ (qFaults < MaxQueueFaults /\ qFaults' = qFaults + 1)
  BY DEF RegisterHandlers, Subscribe, CloseQueue, qConfig, headers, nsqd, QueueFault, QueueInv, QueueTypes
<1>2. /\ qnode' \in [QueueNodes -> [at : {"new", "open", "closing", "closed"}, current : 0..(NsqdCount - 1)]]
      /\ \A k \in QueueNodes : qnode'[k].at \in {"open", "closing"} => handlers'[k] = Registered
  <2>1. CASE RegisterHandlers(n)
    BY <2>1 DEF RegisterHandlers, QueueInv, QueueTypes, HandlersFirst
  <2>2. CASE Subscribe(n) \/ CloseQueue(n)
    <3>1. PICK at \in {"open", "closing", "closed"} : qnode' = [qnode EXCEPT ![n].at = at]
      BY <2>2 DEF Subscribe, CloseQueue, Turns
    <3>2. handlers[n] = Registered /\ UNCHANGED handlers
      BY <2>2 DEF Subscribe, CloseQueue, QueueInv, HandlersFirst
    <3>. QED  BY <3>1, <3>2 DEF QueueInv, QueueTypes, HandlersFirst
  <2>. QED  BY <2>1, <2>2
<1>3. qFaults' \in 0..MaxQueueFaults
  BY <1>1, QueueBounds DEF QueueInv, QueueTypes
<1>4. QueueTypes' /\ HandlersFirst'
  BY <1>1, <1>2, <1>3 DEF QueueInv, QueueTypes, HandlersFirst
<1>5. CopiesKept' /\ OneAtATime' /\ RanAreKept' /\ CommandsAreRun'
  BY <1>1 DEF QueueInv, CopiesKept, OneAtATime, RanAreKept, CommandsAreRun
<1>. QED  BY <1>4, <1>5 DEF QueueInv

(***************************************************************************)
(* A consumer connects to an nsqd.                                         *)
(***************************************************************************)
LEMMA NodeLinked ==
  ASSUME QueueInv, NEW n \in QueueNodes, NEW d \in Nsqds, Link(n, d)
  PROVE  QueueInv'
<1>1. UNCHANGED <<balanced, failover, target, command, qnode, handlers, kept, attempts, sending, acked, ran,
                  qFaults, qStarts>>
  BY DEF Link, qConfig, headers
<1>2. /\ channels' \in [Nsqds -> SUBSET QueueNodes] /\ linked' \in [QueueNodes -> SUBSET Nsqds]
      /\ \A e \in Nsqds : channels[e] \subseteq channels'[e] /\ n \in channels'[d]
  BY DEF Link, QueueInv, QueueTypes
<1>. DEFINE new == [m \in Messages |-> IF channels[d] = {} /\ m \in kept[d] THEN "waiting"
                                       ELSE copies[d][n][m]]
<1>3. copies' = [copies EXCEPT ![d][n] = new] /\ copies \in Copies
  BY DEF Link, QueueInv, CopiesKept
<1>4. /\ new \in [Messages -> CopyStates]
      /\ \A l \in Messages : new[l] = "waiting" \/ new[l] = copies[d][n][l]
      /\ \A l \in Messages : new[l] # "none" => l \in kept[d]
  <2>1. \A l \in Messages : copies[d][n][l] \in CopyStates /\ (copies[d][n][l] # "none" => l \in kept[d])
    BY <1>3 DEF Copies, QueueInv, CopiesKept
  <2>2. "waiting" \in CopyStates
    BY DEF CopyStates
  <2>. QED  BY <2>1, <2>2
<1>. HIDE DEF new
<1>5. copies' \in Copies
      /\ \A e \in Nsqds, k \in QueueNodes, l \in Messages :
           copies'[e][k][l] = IF e = d /\ k = n THEN new[l] ELSE copies[e][k][l]
  BY <1>3, <1>4 DEF Copies
<1>6. CopiesKept'
  BY <1>1, <1>2, <1>4, <1>5 DEF QueueInv, CopiesKept
<1>7. OneAtATime'
  BY <1>4, <1>5 DEF QueueInv, OneAtATime
<1>8. CommandsAreRun' /\ RanAreKept'
  BY <1>1, <1>4, <1>5 DEF QueueInv, RanAreKept, CommandsAreRun
<1>9. QueueTypes' /\ HandlersFirst'
  BY <1>1, <1>2 DEF QueueInv, QueueTypes, HandlersFirst
<1>. QED  BY <1>6, <1>7, <1>8, <1>9 DEF QueueInv

(***************************************************************************)
(* A consumer takes a copy while it has none in work.                      *)
(***************************************************************************)
LEMMA CopyTaken ==
  ASSUME QueueInv, NEW n \in QueueNodes, NEW d \in Nsqds, NEW m \in Messages, Take(n, d, m)
  PROVE  QueueInv'
<1>1. UNCHANGED <<balanced, failover, target, command, qnode, handlers, channels, kept, linked, sending, acked,
                  ran, qFaults, qStarts>>
  BY DEF Take, qConfig, headers
<1>2. PICK s \in {"busy", "dropped"} : Marks(d, n, m, s)
  BY DEF Take
<1>3. copies' \in Copies
      /\ \A e \in Nsqds, k \in QueueNodes, l \in Messages :
           copies'[e][k][l] = IF e = d /\ k = n /\ l = m THEN s ELSE copies[e][k][l]
  <2>1. copies \in Copies /\ s \in CopyStates
    BY <1>2 DEF QueueInv, CopiesKept, CopyStates
  <2>. QED  BY <1>2, <2>1, CopyMarked
<1>4. attempts' \in [Nsqds -> [QueueNodes -> [Messages -> 0..MaxAttempts]]]
  <2>1. attempts \in [Nsqds -> [QueueNodes -> [Messages -> 0..MaxAttempts]]]
    BY DEF QueueInv, QueueTypes
  <2>2. CASE UNCHANGED attempts
    BY <2>1, <2>2
  <2>3. CASE attempts[d][n][m] < MaxAttempts /\ attempts' = [attempts EXCEPT ![d][n][m] = @ + 1]
    <3>0. attempts[d][n][m] \in 0..MaxAttempts
      BY <2>1
    <3>1. attempts[d][n][m] + 1 \in 0..MaxAttempts
      BY <2>3, <3>0, QueueBounds
    <3>. QED  BY <2>1, <2>3, <3>1
  <2>. QED  BY <2>2, <2>3 DEF Take
<1>5. copies[d][n][m] = "waiting" /\ \A e \in Nsqds, l \in Messages : copies[e][n][l] # "busy"
  <2>. SUFFICES ASSUME NEW e \in Nsqds, NEW l \in Messages, copies[e][n][l] = "busy"  PROVE FALSE
    BY DEF Take
  <2>1. <<e, l>> \in Nsqds \X Messages /\ <<e, l>>[1] = e /\ <<e, l>>[2] = l
    OBVIOUS
  <2>2. <<e, l>> \in Busy(n)
    BY <2>1 DEF Busy
  <2>. QED  BY <2>2 DEF Take
<1>6. CopiesKept'
  BY <1>1, <1>3, <1>5 DEF QueueInv, CopiesKept
<1>7. OneAtATime'
  BY <1>3, <1>5 DEF QueueInv, OneAtATime
<1>8. CommandsAreRun' /\ RanAreKept'
  BY <1>1, <1>2, <1>3 DEF QueueInv, RanAreKept, CommandsAreRun
<1>9. QueueTypes' /\ HandlersFirst'
  BY <1>1, <1>4 DEF QueueInv, QueueTypes, HandlersFirst
<1>. QED  BY <1>6, <1>7, <1>8, <1>9 DEF QueueInv

(***************************************************************************)
(* A copy is handled: by a handler, since the node has them all, unless it *)
(* is for another node or a command that has none.                         *)
(***************************************************************************)
LEMMA CopyHandled ==
  ASSUME QueueInv, NEW n \in QueueNodes, NEW d \in Nsqds, NEW m \in Messages, HandleMessage(n, d, m)
  PROVE  QueueInv'
<1>1. /\ UNCHANGED <<balanced, failover, target, command, qnode, handlers, channels, kept, attempts, linked,
                     sending, acked, qStarts>>
      /\ copies[d][n][m] = "busy" /\ handlers[n] = Registered
      /\ qFaults' = qFaults \/ (qFaults < MaxQueueFaults /\ qFaults' = qFaults + 1)
  BY DEF HandleMessage, qConfig, headers, QueueFault, QueueInv, HandlersFirst
<1>2. PICK s \in {"done", "waiting"} : Marks(d, n, m, s) /\ 
        (s = "done" /\ target[m] \in {Everyone, n} /\ command[m] \in Registered =>
           ran' = [ran EXCEPT ![n] = @ \cup {m}])
  BY <1>1 DEF HandleMessage
<1>3. copies' \in Copies
      /\ \A e \in Nsqds, k \in QueueNodes, l \in Messages :
           copies'[e][k][l] = IF e = d /\ k = n /\ l = m THEN s ELSE copies[e][k][l]
  <2>1. copies \in Copies /\ s \in CopyStates
    BY <1>2 DEF QueueInv, CopiesKept, CopyStates
  <2>. QED  BY <1>2, <2>1, CopyMarked
<1>4. ran' \in [QueueNodes -> SUBSET Messages] /\ (\A k \in QueueNodes : ran[k] \subseteq ran'[k])
      /\ (s = "done" /\ target[m] \in {Everyone, n} /\ command[m] \in Registered => m \in ran'[n])
      /\ (\A k \in QueueNodes : \A l \in ran'[k] : l \in ran[k] \/ (l = m /\ command[m] \in Registered))
  <2>1. ran \in [QueueNodes -> SUBSET Messages]
    BY DEF QueueInv, QueueTypes
  <2>2. (ran' = [ran EXCEPT ![n] = @ \cup {m}] /\ command[m] \in Registered) \/ UNCHANGED ran
    BY <1>1 DEF HandleMessage
  <2>. QED  BY <1>2, <2>1, <2>2
<1>5. CopiesKept'
  BY <1>1, <1>3 DEF QueueInv, CopiesKept
<1>6. OneAtATime'
  BY <1>2, <1>3 DEF QueueInv, OneAtATime
<1>7. CommandsAreRun'
  BY <1>1, <1>3, <1>4 DEF QueueInv, CommandsAreRun
<1>10. RanAreKept'
  <2>1. m \in kept[d]
    BY <1>1 DEF QueueInv, CopiesKept
  <2>. QED  BY <1>1, <1>4, <2>1 DEF QueueInv, RanAreKept
<1>8. qFaults' \in 0..MaxQueueFaults
  BY <1>1, QueueBounds DEF QueueInv, QueueTypes
<1>9. QueueTypes' /\ HandlersFirst'
  BY <1>1, <1>4, <1>8 DEF QueueInv, QueueTypes, HandlersFirst
<1>. QED  BY <1>5, <1>6, <1>7, <1>9, <1>10 DEF QueueInv

(***************************************************************************)
(* A node's consumer or its process ends.                                  *)
(***************************************************************************)
LEMMA NodeQuits ==
  ASSUME QueueInv, NEW n \in QueueNodes, StopChan(n) \/ QueueRestart(n)
  PROVE  QueueInv'
<1>1. /\ UNCHANGED <<balanced, failover, target, command, channels, kept, attempts, acked, ran, qFaults>>
      /\ copies' = GivenBack(n) /\ linked' = [linked EXCEPT ![n] = {}]
      /\ handlers' \in {handlers, [handlers EXCEPT ![n] = {}]}
  BY DEF StopChan, QueueRestart, qConfig, headers
<1>2. PICK y \in {[qnode[n] EXCEPT !.at = "closed"], NewManager} : qnode' = [qnode EXCEPT ![n] = y]
  BY DEF StopChan, QueueRestart, Turns
<1>3. /\ y \in [at : {"new", "open", "closing", "closed"}, current : 0..(NsqdCount - 1)]
      /\ y.at \notin {"open", "closing"}
  <2>1. qnode[n] \in [at : {"new", "open", "closing", "closed"}, current : 0..(NsqdCount - 1)]
    BY DEF QueueInv, QueueTypes
  <2>. QED  BY <1>2, <2>1, QueueBounds DEF NewManager
<1>4. /\ qnode' \in [QueueNodes -> [at : {"new", "open", "closing", "closed"}, current : 0..(NsqdCount - 1)]]
      /\ HandlersFirst' /\ handlers' \in [QueueNodes -> {{}, Registered}]
  BY <1>1, <1>2, <1>3 DEF QueueInv, QueueTypes, HandlersFirst
<1>5. /\ copies' \in Copies
      /\ \A e \in Nsqds, k \in QueueNodes, l \in Messages :
           copies'[e][k][l] = IF k = n /\ copies[e][k][l] = "busy" THEN "waiting" ELSE copies[e][k][l]
  BY <1>1, CopiesGivenBack DEF QueueInv, CopiesKept
<1>6. sending' \in [QueuePublishers -> Sendings] /\ qStarts' \in 0..MaxQueueStarts
  <2>1. CASE StopChan(n)
    BY <2>1 DEF StopChan, QueueInv, QueueTypes
  <2>2. CASE QueueRestart(n)
    <3>1. qStarts' \in 0..MaxQueueStarts
      BY <2>2, QueueBounds DEF QueueRestart, QueueInv, QueueTypes
    <3>2. sending' \in [QueuePublishers -> Sendings]
      BY <2>2 DEF QueueRestart, QueueInv, QueueTypes, Sendings
    <3>. QED  BY <3>1, <3>2
  <2>. QED  BY <2>1, <2>2
<1>7. CopiesKept'
  BY <1>1, <1>5 DEF QueueInv, CopiesKept
<1>8. OneAtATime' /\ RanAreKept' /\ CommandsAreRun'
  BY <1>1, <1>5 DEF QueueInv, OneAtATime, RanAreKept, CommandsAreRun
<1>9. QueueTypes'
  BY <1>1, <1>4, <1>6 DEF QueueInv, QueueTypes
<1>. QED  BY <1>4, <1>7, <1>8, <1>9 DEF QueueInv

(***************************************************************************)
(* Publish begins with a message that no nsqd has.                         *)
(***************************************************************************)
LEMMA MessagePublished ==
  ASSUME QueueInv, NEW p \in QueuePublishers, NEW n \in QueueNodes, NEW m \in Messages,
         NEW t \in QueueNodes \cup {Everyone}, NEW x \in Commands, Publish(p, n, m, t, x)
  PROVE  QueueInv'
<1>1. /\ UNCHANGED <<balanced, failover, handlers, channels, kept, copies, attempts, linked, acked, ran,
                     qFaults, qStarts>>
      /\ target' = [target EXCEPT ![m] = t] /\ command' = [command EXCEPT ![m] = x]
      /\ m \notin Messaged
  BY DEF Publish, qConfig, headers, nsqd
<1>2. \A d \in Nsqds, k \in QueueNodes : copies[d][k][m] = "none"
  BY <1>1 DEF Messaged, QueueInv, CopiesKept
<1>3. \A k \in QueueNodes :
        qnode[k] \in [at : {"new", "open", "closing", "closed"}, current : 0..(NsqdCount - 1)]
  BY DEF QueueInv, QueueTypes
<1>4. /\ qnode' \in [QueueNodes -> [at : {"new", "open", "closing", "closed"}, current : 0..(NsqdCount - 1)]]
      /\ \A k \in QueueNodes : qnode'[k].at = qnode[k].at
  <2>1. CASE UNCHANGED qnode
    BY <2>1 DEF QueueInv, QueueTypes
  <2>2. CASE qnode' = [qnode EXCEPT ![n].current = (@ + 1) % NsqdCount]
    <3>1. (qnode[n].current + 1) % NsqdCount \in 0..(NsqdCount - 1)
      BY <1>3, QueueBounds
    <3>. DEFINE next == (qnode[n].current + 1) % NsqdCount
    <3>2. qnode' = [qnode EXCEPT ![n].current = next]
      BY <2>2
    <3>. HIDE DEF next
    <3>. QED  BY <1>3, <3>1, <3>2 DEF next, QueueInv, QueueTypes
  <2>. QED  BY <2>1, <2>2 DEF Publish
<1>5. sending' \in [QueuePublishers -> Sendings]
  <2>1. PICK at : at \in {1, qnode[n].current + 1} /\
                  sending' = [sending EXCEPT ![p] = [at |-> at, msg |-> m, by |-> n, failed |-> {}]]
    BY DEF Publish
  <2>2. at \in Nsqds
    BY <1>3, <2>1, QueueBounds DEF Nsqds
  <2>3. [at |-> at, msg |-> m, by |-> n, failed |-> {}] \in Sendings
    BY <2>2 DEF Sendings
  <2>. QED  BY <2>1, <2>3 DEF QueueInv, QueueTypes
<1>6. /\ target' \in [Messages -> QueueNodes \cup {Everyone}] /\ command' \in [Messages -> Commands]
      /\ \A k \in Messages : k # m => target'[k] = target[k] /\ command'[k] = command[k]
  BY <1>1 DEF QueueInv, QueueTypes
<1>10. \A k \in QueueNodes : m \notin ran[k] /\ ran[k] \subseteq Messages
  BY <1>1 DEF Messaged, QueueInv, RanAreKept, QueueTypes
<1>7. QueueTypes' /\ HandlersFirst'
  BY <1>1, <1>4, <1>5, <1>6 DEF QueueInv, QueueTypes, HandlersFirst
<1>8. CopiesKept' /\ OneAtATime'
  BY <1>1 DEF QueueInv, CopiesKept, OneAtATime
<1>9. CommandsAreRun' /\ RanAreKept'
  BY <1>1, <1>2, <1>6, <1>10 DEF QueueInv, RanAreKept, CommandsAreRun
<1>. QED  BY <1>7, <1>8, <1>9 DEF QueueInv

(***************************************************************************)
(* nsqd keeps the message of a call, or does not.                          *)
(***************************************************************************)
LEMMA MessageSent ==
  ASSUME QueueInv, NEW p \in QueuePublishers, Sent(p) \/ SendFails(p)
  PROVE  QueueInv'
<1>1. PICK x : x = sending[p]
  OBVIOUS
<1>2. /\ x.at # 0
      /\ UNCHANGED <<balanced, failover, target, command, qnode, handlers, channels, attempts, linked, ran,
                     qStarts>>
      /\ qFaults' = qFaults \/ (qFaults < MaxQueueFaults /\ qFaults' = qFaults + 1)
  <2>1. CASE Sent(p)
    BY <1>1, <2>1 DEF Sent, qConfig, headers
  <2>2. CASE SendFails(p)
    BY <1>1, <2>2 DEF SendFails, qConfig, headers, QueueFault
  <2>. QED  BY <2>1, <2>2
<1>3. x \in [at : Nsqds, msg : Messages, by : QueueNodes, failed : SUBSET Nsqds]
  <2>1. x \in Sendings
    BY <1>1 DEF QueueInv, QueueTypes
  <2>2. x = [at |-> 0] => x.at = 0
    OBVIOUS
  <2>. QED  BY <1>2, <2>1, <2>2 DEF Sendings, NoSending
<1>4. (Keep(x.at, x.msg) \/ UNCHANGED <<kept, copies>>)
      /\ (UNCHANGED acked \/ (Keep(x.at, x.msg) /\ acked' = acked \cup {x.msg}))
  BY <1>1 DEF Sent, SendFails
<1>5. qFaults' \in 0..MaxQueueFaults
  BY <1>2, QueueBounds DEF QueueInv, QueueTypes
<1>6. /\ copies' \in Copies /\ kept' \in [Nsqds -> SUBSET Messages]
      /\ \A e \in Nsqds : kept[e] \subseteq kept'[e]
      /\ \A e \in Nsqds, k \in QueueNodes, l \in Messages :
           \/ copies'[e][k][l] = copies[e][k][l]
           \/ copies'[e][k][l] = "waiting" /\ l \in kept'[e] /\ k \in channels[e]
      /\ Keep(x.at, x.msg) => x.msg \in kept'[x.at]
  <2>1. CASE UNCHANGED <<kept, copies>> /\ ~Keep(x.at, x.msg)
    BY <2>1 DEF QueueInv, QueueTypes, CopiesKept
  <2>2. CASE Keep(x.at, x.msg)
    <3>1. x.at \in Nsqds /\ x.msg \in Messages
      BY <1>3
    <3>2. /\ copies' \in Copies /\ kept' \in [Nsqds -> SUBSET Messages]
          /\ \A e \in Nsqds : kept'[e] = IF e = x.at THEN kept[e] \cup {x.msg} ELSE kept[e]
          /\ \A e \in Nsqds, k \in QueueNodes, l \in Messages :
               copies'[e][k][l] =
                 IF e = x.at /\ l = x.msg /\ k \in channels[e] THEN "waiting" ELSE copies[e][k][l]
      BY <2>2, <3>1, MessageKept
    <3>. QED  BY <3>1, <3>2
  <2>. QED  BY <1>4, <2>1, <2>2
<1>7. sending' \in [QueuePublishers -> Sendings]
  <2>1. NoSending \in Sendings
    BY DEF Sendings
  <2>2. CASE Finish(p)
    BY <2>1, <2>2 DEF Finish, QueueInv, QueueTypes
  <2>3. CASE SendFails(p) /\ ~Finish(p)
    <3>. DEFINE tried == x.failed \cup {x.at}
                others == Nsqds \ tried
                next == CHOOSE k \in others : \A j \in others : k <= j
    <3>1. others # {} /\ sending' = [sending EXCEPT ![p].failed = tried, ![p].at = next]
      BY <1>1, <2>3 DEF SendFails
    <3>2. others \in SUBSET Nat
      BY DEF Nsqds
    <3>3. \E k \in others : \A j \in others : k <= j
      <4>. HIDE DEF others
      <4>. QED  BY <3>1, <3>2, LeastNumber
    <3>4. next \in Nsqds /\ tried \in SUBSET Nsqds
      <4>1. next \in others
        BY <3>3
      <4>. QED  BY <1>3, <4>1
    <3>. HIDE DEF next, tried
    <3>5. sending' = [sending EXCEPT ![p] = [x EXCEPT !.failed = tried, !.at = next]]
      BY <1>1, <3>1
    <3>6. [x EXCEPT !.failed = tried, !.at = next] \in Sendings
      BY <1>3, <3>4 DEF Sendings
    <3>. QED  BY <3>5, <3>6 DEF QueueInv, QueueTypes
  <2>. QED  BY <2>2, <2>3 DEF Sent
<1>8. acked' \subseteq Messages
  BY <1>3, <1>4 DEF QueueInv, QueueTypes
<1>9. QueueTypes' /\ HandlersFirst'
  BY <1>2, <1>5, <1>6, <1>7, <1>8 DEF QueueInv, QueueTypes, HandlersFirst
<1>10. CopiesKept'
  BY <1>2, <1>6 DEF QueueInv, CopiesKept
<1>11. OneAtATime'
  BY <1>6 DEF QueueInv, OneAtATime
<1>12. CommandsAreRun' /\ RanAreKept'
  <2>1. \A m \in acked' : \E d \in Nsqds : m \in kept'[d]
    BY <1>3, <1>4, <1>6 DEF QueueInv, RanAreKept, CommandsAreRun
  <2>. QED  BY <1>2, <1>6, <2>1 DEF QueueInv, RanAreKept, CommandsAreRun
<1>. QED  BY <1>9, <1>10, <1>11, <1>12 DEF QueueInv

(***************************************************************************)
(* Every step of MessageQueue keeps its invariant.                         *)
(***************************************************************************)
LEMMA QueueSteps ==
  ASSUME QueueInv, QueueNext
  PROVE  QueueInv'
BY NodeTurns, NodeLinked, CopyTaken, CopyHandled, NodeQuits, MessagePublished, MessageSent DEF QueueNext

(***************************************************************************)
(* The invariant has the types and what CommandsAreRun says.               *)
(***************************************************************************)
LEMMA CommandsFollow == QueueInv => QueueTypeOK /\ CommandsAreRun
<1>. SUFFICES ASSUME QueueInv  PROVE QueueTypeOK
  BY DEF QueueInv
<1>1. \A d \in Nsqds, n \in QueueNodes, m \in Messages :
        /\ copies[d][n][m] \in {"none", "waiting", "busy", "done", "dropped"}
        /\ copies[d][n][m] # "none" => m \in kept[d] /\ n \in channels[d]
        /\ attempts[d][n][m] \in 0..MaxAttempts
  <2>1. attempts \in [Nsqds -> [QueueNodes -> [Messages -> 0..MaxAttempts]]]
    BY DEF QueueInv, QueueTypes
  <2>2. copies \in [Nsqds -> [QueueNodes -> [Messages -> CopyStates]]]
    BY DEF QueueInv, CopiesKept, Copies
  <2>3. \A d \in Nsqds, n \in QueueNodes, m \in Messages :
          copies[d][n][m] \in CopyStates /\ attempts[d][n][m] \in 0..MaxAttempts
    BY <2>1, <2>2
  <2>. QED  BY <2>3 DEF QueueInv, CopiesKept, CopyStates
<1>2. ASSUME NEW n \in QueueNodes
      PROVE  Cardinality(Busy(n)) <= 1
  <2>1. CASE Busy(n) = {}
    BY <2>1, FS_EmptySet
  <2>2. CASE Busy(n) # {}
    <3>1. PICK d \in Nsqds, m \in Messages : copies[d][n][m] = "busy"
      BY <2>2 DEF Busy
    <3>2. \A c \in Busy(n) : c = <<d, m>>
      <4>. SUFFICES ASSUME NEW c \in Busy(n)  PROVE c = <<d, m>>
        OBVIOUS
      <4>1. c \in Nsqds \X Messages /\ copies[c[1]][n][c[2]] = "busy"
        BY DEF Busy
      <4>2. c[1] \in Nsqds /\ c[2] \in Messages /\ c = <<c[1], c[2]>>
        BY <4>1
      <4>3. c[1] = d /\ c[2] = m
        BY <3>1, <4>1, <4>2 DEF QueueInv, OneAtATime
      <4>. QED  BY <4>2, <4>3
    <3>. DEFINE b == <<d, m>>
    <3>. HIDE DEF b
    <3>3. Busy(n) = {b}
      BY <2>2, <3>2 DEF b
    <3>4. Cardinality({b}) = 1
      BY FS_Singleton, Zenon
    <3>5. Cardinality(Busy(n)) = 1
      BY <3>3, <3>4, Zenon
    <3>. QED  BY <3>5
  <2>. QED  BY <2>1, <2>2
<1>. QED  BY <1>1, <1>2 DEF QueueInv, QueueTypes, QueueTypeOK

-----------------------------------------------------------------------------
(* Migrations: while runs do not overlap, the one that runs knows what is  *)
(* recorded, from the records it read and the versions it has done since.  *)
Alone == \A r, s \in Runners : runner[r] # NotRunning /\ runner[s] # NotRunning => r = s
Prefix(S) == \A v \in S : 1..v \subseteq S
GoesUp(x) ==
  /\ x.at = "next" => recorded = x.applied \cup (Versions \cap (1..x.version))
  /\ x.at \in {"function", "record"} =>
       /\ x.version \in Versions \ recorded
       /\ recorded = x.applied \cup 1..(x.version - 1)
  /\ x.at = "record" => schema[x.version] = "with"
GoesDown(x) ==
  /\ x.at = "next" => recorded = {v \in x.applied : v < x.version}
  /\ x.at \in {"function", "record"} =>
       /\ x.version \in recorded \cap undoing
       /\ recorded = {v \in x.applied : v <= x.version}
AtVersions == \A r \in Runners : runner[r].at \in {"function", "record"} => runner[r].version \in Versions
MigrationsInv ==
  /\ MigrationsTypeOK /\ AtVersions
  /\ ~overlapped =>
       /\ Alone /\ Prefix(recorded)
       /\ \A v \in recorded : schema[v] = "with" \/ v \in undoing
       /\ \A r \in Runners : IF runner[r].down THEN GoesDown(runner[r]) ELSE GoesUp(runner[r])

(***************************************************************************)
(* A set of versions that is not empty has a least and a greatest element. *)
(***************************************************************************)
LEMMA Extremes ==
  ASSUME NEW S \in SUBSET Versions, S # {}
  PROVE  /\ \E v \in S : \A w \in S : v <= w
         /\ \E v \in S : \A w \in S : w <= v
<1>1. \E v \in S : \A w \in S : v <= w
  BY LeastNumber DEF Versions
<1>2. S \in SUBSET Nat /\ \A v \in S : v <= MaxVersion
  BY MigrationBounds DEF Versions
<1>. DEFINE T == {MaxVersion - v : v \in S}
<1>3. T \in SUBSET Nat /\ T # {}
  <2>1. \A v \in S : MaxVersion - v \in Nat
    BY <1>2, MigrationBounds
  <2>. QED  BY <2>1
<1>4. PICK n \in T : \A m \in T : n <= m
  <2>. HIDE DEF T
  <2>. QED  BY <1>3, LeastNumber
<1>5. PICK v \in S : n = MaxVersion - v
  BY <1>4
<1>6. \A w \in S : MaxVersion - v <= MaxVersion - w
  BY <1>4, <1>5
<1>7. \A w \in S : w <= v
  <2>. HIDE DEF T
  <2>. QED  BY <1>2, <1>6, MigrationBounds
<1>. QED  BY <1>1, <1>2, <1>7

(***************************************************************************)
(* Migrations starts in its invariant.                                     *)
(***************************************************************************)
LEMMA MigrationsStart == MigrationsInit => MigrationsInv
<1>. SUFFICES ASSUME MigrationsInit  PROVE MigrationsInv
  OBVIOUS
<1>1. MigrationsTypeOK
  <2>1. runner \in [Runners -> [at : {"none", "next", "function", "record"}, down : BOOLEAN,
                     target : 0..MaxVersion, applied : SUBSET Versions, version : 0..(MaxVersion + 1)]]
    BY MigrationBounds DEF MigrationsInit, NotRunning
  <2>2. schema \in [Versions -> {"without", "partly", "with"}] /\ runs \in 0..MaxRuns
    BY MigrationBounds DEF MigrationsInit
  <2>. QED  BY <2>1, <2>2 DEF MigrationsInit, MigrationsTypeOK
<1>2. \A r \in Runners : runner[r] = NotRunning
  BY DEF MigrationsInit
<1>3. recorded = {}
  BY DEF MigrationsInit
<1>. QED  BY <1>1, <1>2, <1>3
          DEF MigrationsInv, AtVersions, NotRunning, Alone, Prefix, GoesUp, Versions

(***************************************************************************)
(* The version that a process turns to.                                    *)
(***************************************************************************)
LEMMA NextVersionIs ==
  ASSUME NEW x, x.applied \subseteq Versions, x.down \in BOOLEAN
  PROVE  LET v == NextVersion(x) IN
         IF Remaining(x) = {} THEN v = 0
         ELSE /\ v \in Remaining(x) /\ v \in Versions /\ v # 0
              /\ x.down => \A w \in Remaining(x) : w <= v
              /\ ~x.down => \A w \in Remaining(x) : v <= w
<1>1. Remaining(x) \subseteq Versions /\ 0 \notin Versions
  BY DEF Remaining, Versions
<1>2. Remaining(x) # {} => /\ \E v \in Remaining(x) : \A w \in Remaining(x) : v <= w
                           /\ \E v \in Remaining(x) : \A w \in Remaining(x) : w <= v
  BY <1>1, Extremes
<1>. QED  BY <1>1, <1>2 DEF NextVersion

(***************************************************************************)
(* Every step of Migrations keeps its types.                               *)
(***************************************************************************)
LEMMA MigrationsKeepTypes ==
  ASSUME MigrationsTypeOK, AtVersions, MigrationsNext
  PROVE  MigrationsTypeOK' /\ AtVersions'
<1>. SUFFICES ASSUME NEW r \in Runners,
                     \/ \E back \in BOOLEAN, t \in 0..MaxVersion : (~back => t = 0) /\ StartRunner(r, back, t)
                     \/ BeginVersion(r) \/ EndVersion(r) \/ RecordVersion(r) \/ AbortRunner(r)
              PROVE  MigrationsTypeOK' /\ AtVersions'
  BY DEF MigrationsNext
<1>. DEFINE R == [at : {"none", "next", "function", "record"}, down : BOOLEAN, target : 0..MaxVersion,
                  applied : SUBSET Versions, version : 0..(MaxVersion + 1)]
<1>1. NotRunning \in R
  BY MigrationBounds DEF NotRunning
<1>2. ASSUME NEW back \in BOOLEAN, NEW t \in 0..MaxVersion, StartRunner(r, back, t)
      PROVE  MigrationsTypeOK' /\ AtVersions'
  <2>1. [at |-> "next", down |-> back, target |-> t, applied |-> recorded,
         version |-> IF back THEN MaxVersion + 1 ELSE 0] \in R
    BY MigrationBounds DEF MigrationsTypeOK
  <2>2. runner' \in [Runners -> R]
    BY <1>2, <2>1 DEF StartRunner, MigrationsTypeOK
  <2>3. /\ runs' \in 0..MaxRuns /\ overlapped' \in BOOLEAN
        /\ UNCHANGED <<recorded, schema, undoing>>
    BY <1>2, MigrationBounds DEF StartRunner, MigrationsTypeOK
  <2>4. AtVersions'
    BY <1>2 DEF StartRunner, AtVersions, MigrationsTypeOK
  <2>. QED  BY <2>2, <2>3, <2>4 DEF MigrationsTypeOK
<1>3. CASE BeginVersion(r)
  <2>. DEFINE x == runner[r]
              v == NextVersion(x)
  <2>1. x \in R
    BY DEF MigrationsTypeOK
  <2>2. v = 0 \/ v \in Versions
    BY <2>1, NextVersionIs
  <2>3. CASE v = 0 \/ (x.down /\ v \in Irreversible)
    BY <1>1, <1>3, <2>3 DEF BeginVersion, Exits, MigrationsTypeOK, AtVersions, NotRunning
  <2>4. CASE ~(v = 0 \/ (x.down /\ v \in Irreversible))
    <3>1. /\ runner' = [runner EXCEPT ![r].at = "function", ![r].version = v]
          /\ schema' = [schema EXCEPT ![v] = "partly"]
          /\ undoing' = IF x.down THEN undoing \cup {v} ELSE undoing
          /\ UNCHANGED <<recorded, overlapped, runs>> /\ v \in Versions
      BY <1>3, <2>2, <2>4 DEF BeginVersion
    <3>2. v \in 0..(MaxVersion + 1)
      BY <3>1, MigrationBounds DEF Versions
    <3>. HIDE DEF v
    <3>3. runner' \in [Runners -> R]
      BY <2>1, <3>1, <3>2 DEF MigrationsTypeOK
    <3>4. schema' \in [Versions -> {"without", "partly", "with"}] /\ undoing' \subseteq Versions
      BY <3>1 DEF MigrationsTypeOK
    <3>5. AtVersions'
      BY <3>1 DEF AtVersions, MigrationsTypeOK
    <3>. QED  BY <3>1, <3>3, <3>4, <3>5 DEF MigrationsTypeOK
  <2>. QED  BY <2>3, <2>4
<1>4. CASE EndVersion(r)
  <2>1. runner' \in [Runners -> R]
    BY <1>4 DEF EndVersion, RunnerGoes, MigrationsTypeOK
  <2>2. schema' \in [Versions -> {"without", "partly", "with"}] /\ undoing' \subseteq Versions
    BY <1>4 DEF EndVersion, MigrationsTypeOK
  <2>3. AtVersions'
    BY <1>4 DEF EndVersion, RunnerGoes, AtVersions, MigrationsTypeOK
  <2>. QED  BY <1>4, <2>1, <2>2, <2>3 DEF EndVersion, MigrationsTypeOK
<1>5. CASE RecordVersion(r)
  <2>. DEFINE x == runner[r]
  <2>1. x \in R
    BY DEF MigrationsTypeOK
  <2>2. runner' \in [Runners -> R]
    BY <1>1, <1>5, <2>1 DEF RecordVersion, RunnerGoes, Exits, MigrationsTypeOK
  <2>3. x.version \in Versions
    BY <1>5 DEF RecordVersion, AtVersions
  <2>4. AtVersions'
    BY <1>5 DEF RecordVersion, RunnerGoes, Exits, AtVersions, NotRunning, MigrationsTypeOK
  <2>. QED  BY <1>5, <2>2, <2>3, <2>4 DEF RecordVersion, MigrationsTypeOK
<1>6. CASE AbortRunner(r)
  BY <1>1, <1>6 DEF AbortRunner, Exits, MigrationsTypeOK, AtVersions, NotRunning
<1>. QED  BY <1>2, <1>3, <1>4, <1>5, <1>6

(***************************************************************************)
(* A process begins, while no other runs.                                  *)
(***************************************************************************)
LEMMA StartKeepsRecords ==
  ASSUME MigrationsInv, NEW r \in Runners, NEW back \in BOOLEAN, NEW t, StartRunner(r, back, t),
         ~overlapped'
  PROVE  /\ Alone' /\ Prefix(recorded)'
         /\ \A v \in recorded' : schema'[v] = "with" \/ v \in undoing'
         /\ \A s \in Runners :
              (IF runner[s].down THEN GoesDown(runner[s]) ELSE GoesUp(runner[s]))'
<1>. DEFINE x == [at |-> "next", down |-> back, target |-> t, applied |-> recorded,
                  version |-> IF back THEN MaxVersion + 1 ELSE 0]
<1>1. /\ ~overlapped /\ UNCHANGED <<recorded, schema, undoing>>
      /\ \A s \in Runners \ {r} : runner[s] = NotRunning
      /\ runner' = [runner EXCEPT ![r] = x]
  BY DEF StartRunner
<1>2. runner'[r] = x /\ \A s \in Runners \ {r} : runner'[s] = NotRunning
  BY <1>1 DEF MigrationsInv, MigrationsTypeOK
<1>3. recorded \subseteq Versions /\ recorded = {v \in recorded : v < MaxVersion + 1}
  <2>1. recorded \subseteq Versions
    BY DEF MigrationsInv, MigrationsTypeOK
  <2>2. \A v \in Versions : v < MaxVersion + 1
    BY MigrationBounds DEF Versions
  <2>. QED  BY <2>1, <2>2
<1>4. (IF runner[r].down THEN GoesDown(runner[r]) ELSE GoesUp(runner[r]))'
  BY <1>1, <1>2, <1>3, MigrationBounds DEF GoesDown, GoesUp
<1>5. \A s \in Runners \ {r} : (IF runner[s].down THEN GoesDown(runner[s]) ELSE GoesUp(runner[s]))'
  BY <1>2 DEF GoesDown, GoesUp, NotRunning
<1>6. Alone'
  BY <1>2 DEF Alone
<1>. QED  BY <1>1, <1>4, <1>5, <1>6 DEF MigrationsInv, Prefix

(***************************************************************************)
(* The process that runs turns to a version, carries it out or records it. *)
(***************************************************************************)
LEMMA TurnKeepsRecords ==
  ASSUME MigrationsInv, ~overlapped, NEW r \in Runners, runner[r] # NotRunning, NEW y,
         runner' = [runner EXCEPT ![r] = y], Prefix(recorded)',
         \A v \in recorded' : schema'[v] = "with" \/ v \in undoing',
         IF y.down THEN GoesDown(y)' ELSE GoesUp(y)'
  PROVE  /\ Alone' /\ Prefix(recorded)'
         /\ \A v \in recorded' : schema'[v] = "with" \/ v \in undoing'
         /\ \A s \in Runners :
              (IF runner[s].down THEN GoesDown(runner[s]) ELSE GoesUp(runner[s]))'
<1>1. \A s \in Runners \ {r} : runner[s] = NotRunning
  BY DEF MigrationsInv, Alone
<1>2. runner'[r] = y /\ \A s \in Runners \ {r} : runner'[s] = NotRunning
  BY <1>1 DEF MigrationsInv, MigrationsTypeOK
<1>3. (IF runner[r].down THEN GoesDown(runner[r]) ELSE GoesUp(runner[r]))'
  BY <1>2 DEF GoesDown, GoesUp
<1>4. \A s \in Runners \ {r} : (IF runner[s].down THEN GoesDown(runner[s]) ELSE GoesUp(runner[s]))'
  BY <1>2 DEF GoesDown, GoesUp, NotRunning
<1>5. Alone'
  BY <1>2 DEF Alone
<1>. QED  BY <1>3, <1>4, <1>5

(***************************************************************************)
(* Every step of Migrations keeps its invariant.                           *)
(***************************************************************************)
LEMMA MigrationsStep ==
  ASSUME MigrationsInv, MigrationsNext
  PROVE  MigrationsInv'
<1>0. MigrationsTypeOK' /\ AtVersions'
  BY MigrationsKeepTypes DEF MigrationsInv
<1>. SUFFICES ASSUME ~overlapped'
              PROVE  /\ Alone' /\ Prefix(recorded)'
                     /\ \A v \in recorded' : schema'[v] = "with" \/ v \in undoing'
                     /\ \A s \in Runners :
                          (IF runner[s].down THEN GoesDown(runner[s]) ELSE GoesUp(runner[s]))'
  BY <1>0 DEF MigrationsInv
<1>1. ASSUME NEW r \in Runners, NEW back \in BOOLEAN, NEW t, StartRunner(r, back, t)
      PROVE  /\ Alone' /\ Prefix(recorded)'
             /\ \A v \in recorded' : schema'[v] = "with" \/ v \in undoing'
             /\ \A s \in Runners :
                  (IF runner[s].down THEN GoesDown(runner[s]) ELSE GoesUp(runner[s]))'
  BY <1>1, StartKeepsRecords
<1>2. ASSUME NEW r \in Runners, BeginVersion(r) \/ EndVersion(r) \/ RecordVersion(r) \/ AbortRunner(r)
      PROVE  /\ Alone' /\ Prefix(recorded)'
             /\ \A v \in recorded' : schema'[v] = "with" \/ v \in undoing'
             /\ \A s \in Runners :
                  (IF runner[s].down THEN GoesDown(runner[s]) ELSE GoesUp(runner[s]))'
  <2>. DEFINE x == runner[r]
  <2>1. ~overlapped /\ x # NotRunning
    BY <1>2 DEF BeginVersion, EndVersion, RecordVersion, AbortRunner, NotRunning
  <2>2. /\ x.down \in BOOLEAN /\ x.applied \subseteq Versions /\ x.version \in 0..(MaxVersion + 1)
        /\ x.at \in {"none", "next", "function", "record"}
        /\ recorded \subseteq Versions /\ schema \in [Versions -> {"without", "partly", "with"}]
        /\ x \in [at : {"none", "next", "function", "record"}, down : BOOLEAN, target : 0..MaxVersion,
                  applied : SUBSET Versions, version : 0..(MaxVersion + 1)]
    BY DEF MigrationsInv, MigrationsTypeOK
  <2>3. /\ Prefix(recorded) /\ (x.down => GoesDown(x)) /\ (~x.down => GoesUp(x))
        /\ \A v \in recorded : schema[v] = "with" \/ v \in undoing
    BY <2>1 DEF MigrationsInv
  <2>4. CASE AbortRunner(r) \/ (RecordVersion(r) /\ runner' = [runner EXCEPT ![r] = NotRunning]
                                /\ UNCHANGED recorded)
    <3>1. runner' = [runner EXCEPT ![r] = NotRunning] /\ UNCHANGED <<recorded, schema, undoing>>
      BY <2>4 DEF AbortRunner, RecordVersion, Exits
    <3>. QED  BY <2>1, <2>3, <3>1, TurnKeepsRecords DEF NotRunning, GoesUp, Prefix
  <2>5. CASE BeginVersion(r)
    <3>. DEFINE v == NextVersion(x)
    <3>1. CASE v = 0 \/ (x.down /\ v \in Irreversible)
      <4>1. runner' = [runner EXCEPT ![r] = NotRunning] /\ UNCHANGED <<recorded, schema, undoing>>
        BY <2>5, <3>1 DEF BeginVersion, Exits
      <4>. QED  BY <2>1, <2>3, <4>1, TurnKeepsRecords DEF NotRunning, GoesUp, Prefix
    <3>2. CASE ~(v = 0 \/ (x.down /\ v \in Irreversible))
      <4>0. PICK y : y = [x EXCEPT !.at = "function", !.version = v]
        OBVIOUS
      <4>i. /\ runner' = [runner EXCEPT ![r].at = "function", ![r].version = v] /\ x.at = "next"
            /\ schema' = [schema EXCEPT ![v] = "partly"]
            /\ undoing' = IF x.down THEN undoing \cup {v} ELSE undoing
            /\ UNCHANGED recorded
        BY <2>5, <3>2 DEF BeginVersion
      <4>j. runner' = [runner EXCEPT ![r] = y]
        BY <4>0, <4>i
      <4>1. /\ runner' = [runner EXCEPT ![r] = y] /\ x.at = "next"
            /\ schema' = [schema EXCEPT ![v] = "partly"]
            /\ undoing' = IF x.down THEN undoing \cup {v} ELSE undoing
            /\ UNCHANGED recorded
        BY <4>i, <4>j
      <4>2. v \in Remaining(x) /\ v \in Versions /\ (x.down => \A w \in Remaining(x) : w <= v)
            /\ (~x.down => \A w \in Remaining(x) : v <= w)
        BY <2>2, <3>2, NextVersionIs
      <4>. HIDE DEF v
      <4>3. y.at = "function" /\ y.down = x.down /\ y.version = v /\ y.applied = x.applied
        BY <2>2, <4>0
      <4>4. \A w \in Versions : w \in Nat /\ w >= 1 /\ w <= MaxVersion
        BY MigrationBounds DEF Versions
      <4>5. CASE x.down
        <5>1. recorded = {w \in x.applied : w < x.version} /\ v \in x.applied /\ v < x.version
          BY <2>3, <4>1, <4>2, <4>5 DEF GoesDown, Remaining
        <5>2. \A w \in x.applied : w < x.version => w <= v
          <6>. SUFFICES ASSUME NEW w \in x.applied, w < x.version, ~(w <= v)  PROVE FALSE
            OBVIOUS
          <6>1. w > x.target
            BY <2>2, <4>2, <4>4, <4>5 DEF Remaining
          <6>2. w \in Remaining(x)
            BY <4>5, <6>1 DEF Remaining
          <6>. QED  BY <4>2, <4>5, <6>2
        <5>3. recorded = {w \in x.applied : w <= v}
          BY <2>2, <4>2, <4>4, <5>1, <5>2
        <5>4. GoesDown(y)'
          BY <4>1, <4>2, <4>3, <4>5, <5>1, <5>3 DEF GoesDown
        <5>5. \A w \in recorded' : schema'[w] = "with" \/ w \in undoing'
          BY <2>2, <2>3, <4>1, <4>2, <4>5
        <5>. QED  BY <2>1, <2>3, <4>1, <4>3, <4>5, <5>4, <5>5, TurnKeepsRecords DEF Prefix
      <4>6. CASE ~x.down
        <5>1. recorded = x.applied \cup (Versions \cap (1..x.version))
          BY <2>3, <4>1, <4>6 DEF GoesUp
        <5>2. v \notin recorded
          BY <2>2, <4>2, <4>4, <4>6, <5>1 DEF Remaining
        <5>3. \A w \in Versions \ recorded : v <= w
          <6>. SUFFICES ASSUME NEW w \in Versions, w \notin recorded  PROVE v <= w
            OBVIOUS
          <6>1. w \notin x.applied /\ w > x.version
            BY <2>2, <4>4, <5>1
          <6>2. w \in Remaining(x)
            BY <4>6, <6>1 DEF Remaining
          <6>. QED  BY <4>2, <4>6, <6>2
        <5>4. 1..(v - 1) \subseteq recorded
          BY <4>2, <4>4, <5>3, MigrationBounds DEF Versions
        <5>5. \A w \in recorded : w <= v - 1
          <6>. SUFFICES ASSUME NEW w \in recorded, ~(w <= v - 1)  PROVE FALSE
            OBVIOUS
          <6>1. w \in Nat /\ v \in Nat /\ v >= 1 /\ w >= v
            BY <2>2, <4>2, <4>4
          <6>2. v \in 1..w
            BY <6>1
          <6>. QED  BY <2>3, <5>2, <6>2 DEF Prefix
        <5>6. recorded = x.applied \cup 1..(v - 1)
          <6>1. \A w \in recorded : w \in 1..(v - 1)
            BY <2>2, <4>2, <4>4, <5>5
          <6>2. x.applied \subseteq recorded
            BY <5>1
          <6>. QED  BY <5>4, <6>1, <6>2
        <5>7. GoesUp(y)'
          BY <4>1, <4>2, <4>3, <5>2, <5>6 DEF GoesUp
        <5>8. \A w \in recorded' : schema'[w] = "with" \/ w \in undoing'
          BY <2>2, <2>3, <4>1, <4>2, <4>6, <5>2
        <5>. QED  BY <2>1, <2>3, <4>1, <4>3, <4>6, <5>7, <5>8, TurnKeepsRecords DEF Prefix
      <4>. QED  BY <4>5, <4>6
    <3>. QED  BY <3>1, <3>2
  <2>6. CASE EndVersion(r)
    <3>. DEFINE v == x.version
    <3>0. PICK y : y = [x EXCEPT !.at = "record"]
      OBVIOUS
    <3>1. /\ runner' = [runner EXCEPT ![r] = y] /\ x.at = "function" /\ UNCHANGED recorded
          /\ schema' = [schema EXCEPT ![v] = IF x.down THEN "without" ELSE "with"]
          /\ undoing' = IF x.down THEN undoing ELSE undoing \ {v}
      BY <2>2, <2>6, <3>0 DEF EndVersion, RunnerGoes
    <3>2. y.at = "record" /\ y.down = x.down /\ y.version = v /\ y.applied = x.applied
      BY <2>2, <3>0
    <3>3. v \in Versions
      BY <3>1 DEF MigrationsInv, AtVersions
    <3>4. CASE x.down
      <4>1. GoesDown(y)'
        BY <2>3, <3>1, <3>2, <3>4 DEF GoesDown
      <4>2. \A w \in recorded' : schema'[w] = "with" \/ w \in undoing'
        BY <2>2, <2>3, <3>1, <3>3, <3>4 DEF GoesDown
      <4>. QED  BY <2>1, <2>3, <3>1, <3>2, <3>4, <4>1, <4>2, TurnKeepsRecords DEF Prefix
    <3>5. CASE ~x.down
      <4>1. GoesUp(y)'
        BY <2>2, <2>3, <3>1, <3>2, <3>3, <3>5 DEF GoesUp
      <4>2. \A w \in recorded' : schema'[w] = "with" \/ w \in undoing'
        BY <2>2, <2>3, <3>1, <3>3, <3>5 DEF GoesUp
      <4>. QED  BY <2>1, <2>3, <3>1, <3>2, <3>5, <4>1, <4>2, TurnKeepsRecords DEF Prefix
    <3>. QED  BY <3>4, <3>5
  <2>7. CASE RecordVersion(r) /\ ~(runner' = [runner EXCEPT ![r] = NotRunning] /\ UNCHANGED recorded)
    <3>. DEFINE v == x.version
    <3>0. PICK y : y = [x EXCEPT !.at = "next"]
      OBVIOUS
    <3>1. /\ runner' = [runner EXCEPT ![r] = y] /\ x.at = "record" /\ UNCHANGED <<schema, undoing>>
          /\ (x.down => recorded' = recorded \ {v}) /\ (~x.down => recorded' = recorded \cup {v})
      BY <2>2, <2>7, <3>0 DEF RecordVersion, RunnerGoes, Exits
    <3>2. y.at = "next" /\ y.down = x.down /\ y.version = v /\ y.applied = x.applied
      BY <2>2, <3>0
    <3>3. v \in Versions /\ \A w \in Versions : w \in Nat /\ w >= 1 /\ w <= MaxVersion
      BY <3>1, MigrationBounds DEF MigrationsInv, AtVersions, Versions
    <3>4. CASE x.down
      <4>1. recorded = {w \in x.applied : w <= v} /\ recorded' = {w \in x.applied : w < v}
        BY <2>2, <2>3, <3>1, <3>3, <3>4 DEF GoesDown
      <4>2. GoesDown(y)'
        BY <3>2, <4>1 DEF GoesDown
      <4>3. Prefix(recorded)'
        <5>. SUFFICES ASSUME NEW w \in recorded', NEW k \in 1..w  PROVE k \in recorded'
          BY DEF Prefix
        <5>1. w \in recorded /\ w < v /\ w \in Nat
          BY <2>2, <3>3, <4>1
        <5>2. k \in recorded
          BY <2>3, <5>1 DEF Prefix
        <5>. QED  BY <3>3, <4>1, <5>1, <5>2
      <4>4. \A w \in recorded' : schema'[w] = "with" \/ w \in undoing'
        BY <2>3, <3>1, <3>4
      <4>. QED  BY <2>1, <3>1, <3>2, <3>4, <4>2, <4>3, <4>4, TurnKeepsRecords
    <3>5. CASE ~x.down
      <4>1. recorded = x.applied \cup 1..(v - 1) /\ recorded' = recorded \cup {v} /\ schema[v] = "with"
        BY <2>3, <3>1, <3>5 DEF GoesUp
      <4>2. Versions \cap (1..v) = 1..(v - 1) \cup {v}
        BY <3>3, MigrationBounds DEF Versions
      <4>3. GoesUp(y)'
        BY <3>2, <4>1, <4>2 DEF GoesUp
      <4>4. Prefix(recorded)'
        <5>. SUFFICES ASSUME NEW w \in recorded', NEW k \in 1..w  PROVE k \in recorded'
          BY DEF Prefix
        <5>1. CASE w \in recorded
          BY <2>3, <4>1, <5>1 DEF Prefix
        <5>2. CASE w = v
          BY <3>3, <4>1, <5>2
        <5>. QED  BY <4>1, <5>1, <5>2
      <4>5. \A w \in recorded' : schema'[w] = "with" \/ w \in undoing'
        BY <2>3, <3>1, <4>1
      <4>. QED  BY <2>1, <3>1, <3>2, <3>5, <4>3, <4>4, <4>5, TurnKeepsRecords
    <3>. QED  BY <3>4, <3>5
  <2>. QED  BY <1>2, <2>4, <2>5, <2>6, <2>7
<1>. QED  BY <1>1, <1>2 DEF MigrationsNext

(***************************************************************************)
(* The invariant has what RecordsMatchSchema says.                         *)
(***************************************************************************)
LEMMA RecordsMatch == MigrationsInv => RecordsMatchSchema
BY DEF MigrationsInv, RecordsMatchSchema, Prefix

-----------------------------------------------------------------------------
(* ObjectPool: what the idle objects carry, and the users that will count  *)
(* an object they have not made yet.                                       *)
PoolStates == {"out", "missed", "create", "wait", "has", "uses", "put"}
Creating == {u \in PoolUsers : user[u].at = "create"}
PoolInv ==
  /\ PoolTypeOK
  /\ user \in [PoolUsers -> [at : PoolStates, obj : 0..made]]
  /\ DOMAIN content = Objects
  /\ created + Cardinality(Creating) <= PoolMax + Cardinality(PoolUsers) - 1
  /\ \A u \in PoolUsers : user[u].obj # NoObject <=> user[u].at \in {"has", "uses", "put"}
  /\ \A i \in DOMAIN idle : idle[i] <= made /\ (resets => content[idle[i]] = Blank)
  /\ \A o \in Objects : o > made => content[o] = Blank
  /\ ObjectsAreExclusive

(***************************************************************************)
(* The numbers of ObjectPool.                                              *)
(***************************************************************************)
LEMMA PoolNumbers ==
  ASSUME PoolTypeOK
  PROVE  /\ made \in Nat /\ made <= MaxObjects /\ created \in Nat /\ created <= made
         /\ Cardinality(PoolUsers) \in Nat /\ Cardinality(PoolUsers) >= 1
         /\ IsFiniteSet(Creating) /\ Cardinality(Creating) \in Nat
         /\ Cardinality(Creating) <= Cardinality(PoolUsers)
<1>1. Cardinality(PoolUsers) \in Nat /\ Cardinality(PoolUsers) # 0
  BY PoolBounds, FS_CardinalityType, FS_EmptySet
<1>2. IsFiniteSet(Creating) /\ Cardinality(Creating) <= Cardinality(PoolUsers)
  BY PoolBounds, FS_Subset DEF Creating
<1>3. Cardinality(Creating) \in Nat
  BY <1>2, FS_CardinalityType
<1>. QED  BY <1>1, <1>2, <1>3, PoolBounds DEF PoolTypeOK

(***************************************************************************)
(* ObjectPool starts in its invariant.                                     *)
(***************************************************************************)
LEMMA PoolStarts == PoolInit => PoolInv
<1>. SUFFICES ASSUME PoolInit  PROVE PoolInv
  OBVIOUS
<1>1. user \in [PoolUsers -> [at : PoolStates, obj : 0..made]]
  BY DEF PoolInit, PoolStates, NoObject
<1>2. Creating = {} /\ Cardinality(Creating) = 0
  BY FS_EmptySet DEF PoolInit, Creating
<1>3. Cardinality(PoolUsers) \in Nat /\ Cardinality(PoolUsers) >= 1
  <2>1. Cardinality(PoolUsers) \in Nat /\ Cardinality(PoolUsers) # 0
    BY PoolBounds, FS_CardinalityType, FS_EmptySet
  <2>. QED  BY <2>1
<1>4. PoolTypeOK
  BY <1>1, <1>3, PoolBounds DEF PoolInit, PoolTypeOK, PoolStates, NoObject
<1>5. ObjectsAreExclusive
  BY DEF PoolInit, ObjectsAreExclusive
<1>. QED  BY <1>1, <1>2, <1>3, <1>4, <1>5, PoolBounds DEF PoolInit, PoolInv, NoObject

(***************************************************************************)
(* How a goroutine's turn changes the number of those that will create.    *)
(***************************************************************************)
LEMMA CreatingGoes ==
  ASSUME PoolInv, NEW u \in PoolUsers, NEW x, user' = [user EXCEPT ![u] = x],
         \/ user[u].at # "create" /\ x.at # "create" /\ created' = created
         \/ user[u].at # "create" /\ created < PoolMax /\ created' = created
         \/ user[u].at = "create" /\ x.at # "create" /\ created' = created + 1
  PROVE  created' + Cardinality(Creating') <= PoolMax + Cardinality(PoolUsers) - 1
<1>1. user'[u] = x /\ \A w \in PoolUsers \ {u} : user'[w] = user[w]
  BY DEF PoolInv
<1>2. PoolTypeOK /\ created + Cardinality(Creating) <= PoolMax + Cardinality(PoolUsers) - 1
  BY DEF PoolInv
<1>3. IsFiniteSet(Creating') /\ Cardinality(Creating') \in Nat /\ Cardinality(Creating') <= Cardinality(PoolUsers)
  <2>1. Creating' \subseteq PoolUsers
    BY DEF Creating
  <2>. QED  BY <2>1, PoolBounds, FS_Subset, FS_CardinalityType
<1>4. CASE user[u].at # "create" /\ x.at # "create" /\ created' = created
  <2>1. Creating' = Creating
    BY <1>1, <1>4 DEF Creating
  <2>. QED  BY <1>2, <1>4, <2>1
<1>5. CASE user[u].at # "create" /\ created < PoolMax /\ created' = created
  BY <1>2, <1>3, <1>5, PoolNumbers, PoolBounds
<1>6. CASE user[u].at = "create" /\ x.at # "create" /\ created' = created + 1
  <2>1. Creating' = Creating \ {u} /\ u \in Creating
    BY <1>1, <1>6 DEF Creating
  <2>2. Cardinality(Creating') = Cardinality(Creating) - 1
    BY <1>2, <2>1, PoolNumbers, FS_RemoveElement
  <2>. QED  BY <1>2, <1>6, <2>2, PoolNumbers, PoolBounds
<1>. QED  BY <1>4, <1>5, <1>6

(***************************************************************************)
(* An idle object is handed out.                                           *)
(***************************************************************************)
LEMMA TakesIdle ==
  ASSUME PoolInv, NEW u \in PoolUsers, user[u].at \in {"out", "wait"}, idle # <<>>,
         idle' = Tail(idle), user' = [user EXCEPT ![u] = [at |-> "has", obj |-> Head(idle)]],
         UNCHANGED <<created, made, resets, content>>
  PROVE  PoolInv'
<1>. DEFINE n == Len(idle)
            o == idle[1]
<1>1. PoolTypeOK /\ idle \in Seq(Objects)
  BY DEF PoolInv, PoolTypeOK
<1>2. /\ n \in Nat /\ n >= 1 /\ Len(idle') = n - 1 /\ Head(idle) = o /\ o \in Objects
      /\ idle' \in Seq(Objects) /\ DOMAIN idle = 1..n /\ DOMAIN idle' = 1..(n - 1)
      /\ \A k \in 1..(n - 1) : idle'[k] = idle[k + 1]
  <2>1. n \in Nat /\ n # 0
    BY <1>1, LenProperties, EmptySeq
  <2>2. /\ Len(idle') = n - 1 /\ idle' \in Seq(Objects) /\ Head(idle) = o
        /\ \A k \in 1..(n - 1) : idle'[k] = idle[k + 1]
    BY <1>1, <2>1, HeadTailProperties
  <2>3. DOMAIN idle = 1..n /\ DOMAIN idle' = 1..(n - 1)
    BY <1>1, <2>2, LenProperties
  <2>4. o \in Objects
    BY <1>1, <2>1, <2>3, ElementOfSeq
  <2>. QED  BY <2>1, <2>2, <2>3, <2>4
<1>. HIDE DEF n
<1>3. o \in 0..made /\ o # NoObject /\ 1 \in DOMAIN idle /\ (resets => content[o] = Blank)
  <2>1. made \in Nat
    BY <1>1, PoolNumbers
  <2>2. 1 \in DOMAIN idle
    BY <1>2
  <2>3. o <= made /\ (resets => content[o] = Blank)
    BY <2>2 DEF PoolInv
  <2>4. o \in Nat /\ o # 0
    BY <1>2 DEF Objects
  <2>. QED  BY <2>1, <2>2, <2>3, <2>4 DEF NoObject
<1>. HIDE DEF o
<1>4. user'[u] = [at |-> "has", obj |-> o] /\ \A w \in PoolUsers \ {u} : user'[w] = user[w]
  BY <1>2 DEF PoolInv
<1>5. user' \in [PoolUsers -> [at : PoolStates, obj : 0..made']]
  BY <1>2, <1>3 DEF PoolInv, PoolStates
<1>6. created' + Cardinality(Creating') <= PoolMax + Cardinality(PoolUsers) - 1
  BY CreatingGoes
<1>7. ASSUME NEW w \in PoolUsers \ {u}, user[w].obj # NoObject
      PROVE  user[w].obj # o /\ \A i \in DOMAIN idle : idle[i] # user[w].obj
  BY <1>3, <1>7 DEF PoolInv, ObjectsAreExclusive, o
<1>8. \A i \in DOMAIN idle' : i + 1 \in DOMAIN idle /\ idle'[i] = idle[i + 1] /\ i \in Int /\ i + 1 # 1
  BY <1>2
<1>9. \A i \in DOMAIN idle' : idle'[i] # o
  BY <1>3, <1>8 DEF PoolInv, ObjectsAreExclusive, o
<1>10. \A i, j \in DOMAIN idle' : idle'[i] = idle'[j] => i = j
  <2>. SUFFICES ASSUME NEW i \in DOMAIN idle', NEW j \in DOMAIN idle', idle'[i] = idle'[j]
                PROVE  i = j
    OBVIOUS
  <2>1. i + 1 = j + 1
    BY <1>8 DEF PoolInv, ObjectsAreExclusive
  <2>. QED  BY <1>8, <2>1
<1>11. ObjectsAreExclusive'
  <2>. SUFFICES ASSUME NEW w \in PoolUsers, user'[w].obj # NoObject
                PROVE  /\ \A i \in DOMAIN idle' : idle'[i] # user'[w].obj
                       /\ \A v \in PoolUsers : user'[v].obj = user'[w].obj => v = w
                       /\ user'[w].at = "uses" => content'[user'[w].obj] = w
                       /\ user'[w].at # "uses" /\ resets' => content'[user'[w].obj] = Blank
    BY <1>10 DEF ObjectsAreExclusive
  <2>1. CASE w = u
    BY <1>3, <1>4, <1>7, <1>9, <2>1
  <2>2. CASE w # u
    <3>1. user'[w] = user[w] /\ user[w].obj # NoObject
      BY <1>4, <2>2
    <3>2. \A i \in DOMAIN idle' : idle'[i] # user[w].obj
      BY <1>7, <1>8, <2>2, <3>1
    <3>3. \A v \in PoolUsers : user'[v].obj = user[w].obj => v = w
      BY <1>4, <1>7, <2>2, <3>1 DEF PoolInv, ObjectsAreExclusive
    <3>. QED  BY <3>1, <3>2, <3>3 DEF PoolInv, ObjectsAreExclusive
  <2>. QED  BY <2>1, <2>2
<1>12. \A w \in PoolUsers : user'[w].obj # NoObject <=> user'[w].at \in {"has", "uses", "put"}
  BY <1>3, <1>4 DEF PoolInv
<1>13. PoolTypeOK'
  BY <1>1, <1>2, <1>5, PoolBounds DEF PoolTypeOK, PoolStates
<1>14. \A i \in DOMAIN idle' : idle'[i] <= made' /\ (resets' => content'[idle'[i]] = Blank)
  BY <1>8 DEF PoolInv
<1>. QED  BY <1>5, <1>6, <1>11, <1>12, <1>13, <1>14 DEF PoolInv

(***************************************************************************)
(* An object is made.                                                      *)
(***************************************************************************)
LEMMA MakesNew ==
  ASSUME PoolInv, NEW u \in PoolUsers, Makes(u), UNCHANGED <<idle, resets, content>>,
         \/ user[u].at = "create" /\ created' = created + 1
         \/ user[u].at = "wait" /\ created' = created
  PROVE  PoolInv'
<1>. DEFINE o == made + 1
<1>1. PoolTypeOK /\ made < MaxObjects /\ made' = o /\ user' = [user EXCEPT ![u] = [at |-> "has", obj |-> o]]
  BY DEF PoolInv, Makes, PoolGoes
<1>2. o \in Nat /\ o # NoObject /\ o \in 0..made' /\ o \in Objects /\ o > made /\ made \in Nat
  BY <1>1, PoolNumbers, PoolBounds DEF NoObject, Objects
<1>3. created' \in 0..made' /\ made' \in 0..MaxObjects
  BY <1>1, PoolNumbers, PoolBounds
<1>. HIDE DEF o
<1>4. user'[u] = [at |-> "has", obj |-> o] /\ \A w \in PoolUsers \ {u} : user'[w] = user[w]
  BY <1>1 DEF PoolInv
<1>5. user' \in [PoolUsers -> [at : PoolStates, obj : 0..made']]
  <2>1. \A w \in PoolUsers : user[w] \in [at : PoolStates, obj : 0..made']
    BY <1>1, <1>2 DEF PoolInv, o
  <2>. QED  BY <1>1, <1>2, <2>1 DEF PoolInv, PoolStates
<1>6. created' + Cardinality(Creating') <= PoolMax + Cardinality(PoolUsers) - 1
  BY <1>1, CreatingGoes
<1>7. \A w \in PoolUsers : user[w].obj # o
  BY <1>2 DEF PoolInv
<1>8. \A i \in DOMAIN idle : idle[i] # o
  <2>1. \A i \in DOMAIN idle : idle[i] \in Objects
    BY <1>1, ElementOfSeq, LenProperties DEF PoolTypeOK
  <2>. QED  BY <1>2, <2>1, PoolBounds DEF PoolInv, Objects
<1>9. ObjectsAreExclusive'
  <2>. SUFFICES ASSUME NEW w \in PoolUsers, user'[w].obj # NoObject
                PROVE  /\ \A i \in DOMAIN idle : idle[i] # user'[w].obj
                       /\ \A v \in PoolUsers : user'[v].obj = user'[w].obj => v = w
                       /\ user'[w].at = "uses" => content[user'[w].obj] = w
                       /\ user'[w].at # "uses" /\ resets => content[user'[w].obj] = Blank
    BY DEF PoolInv, ObjectsAreExclusive
  <2>1. CASE w = u
    BY <1>2, <1>4, <1>7, <1>8, <2>1 DEF PoolInv
  <2>2. CASE w # u
    BY <1>4, <1>7, <2>2 DEF PoolInv, ObjectsAreExclusive
  <2>. QED  BY <2>1, <2>2
<1>10. \A w \in PoolUsers : user'[w].obj # NoObject <=> user'[w].at \in {"has", "uses", "put"}
  BY <1>2, <1>4 DEF PoolInv
<1>11. created' <= PoolMax + Cardinality(PoolUsers) - 1
  <2>1. Cardinality(Creating') \in Nat
    <3>1. Creating' \subseteq PoolUsers
      BY DEF Creating
    <3>. QED  BY <3>1, PoolBounds, FS_Subset, FS_CardinalityType
  <2>. QED  BY <1>1, <1>3, <1>6, <2>1, PoolNumbers, PoolBounds
<1>12. PoolTypeOK'
  BY <1>1, <1>3, <1>5, <1>11 DEF PoolTypeOK, PoolStates
<1>13. \A i \in DOMAIN idle : idle[i] <= made' /\ (resets => content[idle[i]] = Blank)
  <2>1. \A i \in DOMAIN idle : idle[i] \in Objects
    BY <1>1, ElementOfSeq, LenProperties DEF PoolTypeOK
  <2>. QED  BY <1>1, <1>2, <2>1, PoolBounds DEF PoolInv, Objects, o
<1>14. \A k \in Objects : k > made' => content[k] = Blank
  BY <1>1, <1>2, PoolBounds DEF PoolInv, Objects, o
<1>. QED  BY <1>5, <1>6, <1>9, <1>10, <1>12, <1>13, <1>14 DEF PoolInv

(***************************************************************************)
(* Every step of ObjectPool keeps its invariant.                           *)
(***************************************************************************)
LEMMA PoolSteps ==
  ASSUME PoolInv, PoolNext
  PROVE  PoolInv'
<1>. SUFFICES ASSUME NEW u \in PoolUsers,
                     \/ GetIdle(u) \/ GetMisses(u) \/ GetChecks(u) \/ GetCreates(u)
                     \/ GetReturned(u) \/ GetTimesOut(u) \/ Fill(u) \/ PutReset(u) \/ PutSend(u)
              PROVE  PoolInv'
  BY DEF PoolNext
<1>0. PoolTypeOK /\ idle \in Seq(Objects)
  BY DEF PoolInv, PoolTypeOK
<1>1. CASE GetIdle(u) \/ GetReturned(u)
  BY <1>1, TakesIdle DEF GetIdle, GetReturned, PoolGoes
<1>2. CASE GetCreates(u) \/ GetTimesOut(u)
  BY <1>2, MakesNew DEF GetCreates, GetTimesOut
<1>3. ASSUME NEW l \in {"missed", "create", "wait"}, user[u].at \in {"out", "missed"},
             l = "create" => created < PoolMax,
             user' = [user EXCEPT ![u] = [at |-> l, obj |-> NoObject]],
             UNCHANGED <<idle, created, made, resets, content>>
      PROVE  PoolInv'
  <2>1. user'[u] = [at |-> l, obj |-> NoObject] /\ \A w \in PoolUsers \ {u} : user'[w] = user[w]
    BY <1>3 DEF PoolInv
  <2>2. user' \in [PoolUsers -> [at : PoolStates, obj : 0..made']]
    BY <1>0, <1>3, PoolNumbers DEF PoolInv, PoolStates, NoObject
  <2>3. created' + Cardinality(Creating') <= PoolMax + Cardinality(PoolUsers) - 1
    BY <1>3, CreatingGoes
  <2>4. ObjectsAreExclusive'
    BY <1>3, <2>1 DEF PoolInv, ObjectsAreExclusive
  <2>5. PoolTypeOK'
    BY <1>0, <1>3, <2>2 DEF PoolTypeOK, PoolStates
  <2>6. \A w \in PoolUsers : user'[w].obj # NoObject <=> user'[w].at \in {"has", "uses", "put"}
    BY <1>3, <2>1 DEF PoolInv
  <2>. QED  BY <1>3, <2>2, <2>3, <2>4, <2>5, <2>6 DEF PoolInv
<1>4. CASE GetMisses(u) \/ GetChecks(u)
  <2>1. CASE GetMisses(u)
    BY <1>3, <2>1 DEF GetMisses, PoolGoes
  <2>2. CASE GetChecks(u)
    BY <1>3, <2>2 DEF GetChecks, PoolGoes
  <2>. QED  BY <1>4, <2>1, <2>2
<1>5. ASSUME NEW l \in {"uses", "put"}, NEW y, l = "uses" => y = u,
             l = "put" /\ resets => y = Blank,
             user[u].at \in {"has", "uses"}, user' = [user EXCEPT ![u] = [at |-> l, obj |-> user[u].obj]],
             content' = [content EXCEPT ![user[u].obj] = y],
             UNCHANGED <<idle, created, made, resets>>
      PROVE  PoolInv'
  <2>. DEFINE o == user[u].obj
  <2>1. user'[u] = [at |-> l, obj |-> o] /\ \A w \in PoolUsers \ {u} : user'[w] = user[w]
    BY <1>5 DEF PoolInv
  <2>2. o \in 0..made /\ o # NoObject /\ o \in Objects
    BY <1>0, <1>5, PoolNumbers, PoolBounds DEF PoolInv, NoObject, Objects
  <2>3. content'[o] = y /\ \A k \in Objects \ {o} : content'[k] = content[k]
    BY <1>5, <2>2 DEF PoolInv
  <2>4. \A i \in DOMAIN idle : idle[i] # o /\ idle[i] \in Objects
    BY <1>0, <2>2, ElementOfSeq, LenProperties DEF PoolInv, ObjectsAreExclusive
  <2>5. user' \in [PoolUsers -> [at : PoolStates, obj : 0..made']]
    BY <1>5, <2>2 DEF PoolInv, PoolStates
  <2>6. created' + Cardinality(Creating') <= PoolMax + Cardinality(PoolUsers) - 1
    BY <1>5, CreatingGoes
  <2>7. ObjectsAreExclusive'
    <3>. SUFFICES ASSUME NEW w \in PoolUsers, user'[w].obj # NoObject
                  PROVE  /\ \A i \in DOMAIN idle : idle[i] # user'[w].obj
                         /\ \A v \in PoolUsers : user'[v].obj = user'[w].obj => v = w
                         /\ user'[w].at = "uses" => content'[user'[w].obj] = w
                         /\ user'[w].at # "uses" /\ resets => content'[user'[w].obj] = Blank
      BY <1>5 DEF PoolInv, ObjectsAreExclusive
    <3>0. \A v \in PoolUsers : user'[v].obj = user[v].obj
      BY <2>1
    <3>1. /\ \A i \in DOMAIN idle : idle[i] # user'[w].obj
          /\ \A v \in PoolUsers : user'[v].obj = user'[w].obj => v = w
      BY <3>0 DEF PoolInv, ObjectsAreExclusive
    <3>2. CASE w = u
      BY <1>5, <2>1, <2>3, <3>1, <3>2
    <3>3. CASE w # u
      <4>1. user'[w] = user[w] /\ user[w].obj # o /\ user[w].obj \in Objects
        <5>1. user'[w] = user[w] /\ user[w].obj # o
          BY <2>1, <2>2, <3>3 DEF PoolInv, ObjectsAreExclusive
        <5>2. user[w].obj \in 0..made /\ user[w].obj # 0
          BY <5>1 DEF PoolInv, NoObject
        <5>. QED  BY <1>0, <5>1, <5>2, PoolNumbers, PoolBounds DEF Objects
      <4>2. content'[user[w].obj] = content[user[w].obj]
        BY <2>3, <4>1
      <4>. QED  BY <3>1, <4>1, <4>2 DEF PoolInv, ObjectsAreExclusive
    <3>. QED  BY <3>2, <3>3
  <2>8. PoolTypeOK'
    BY <1>0, <1>5, <2>5 DEF PoolTypeOK, PoolStates
  <2>9. \A w \in PoolUsers : user'[w].obj # NoObject <=> user'[w].at \in {"has", "uses", "put"}
    BY <1>5, <2>1, <2>2 DEF PoolInv
  <2>10. \A i \in DOMAIN idle : idle[i] <= made /\ (resets => content'[idle[i]] = Blank)
    BY <2>3, <2>4 DEF PoolInv
  <2>11. \A k \in Objects : k > made => content'[k] = Blank
    BY <1>0, <2>2, <2>3, PoolNumbers, PoolBounds DEF PoolInv, Objects
  <2>. QED  BY <1>5, <2>5, <2>6, <2>7, <2>8, <2>9, <2>10, <2>11 DEF PoolInv
<1>6. CASE Fill(u)
  BY <1>5, <1>6 DEF Fill, PoolGoes
<1>7. CASE PutReset(u)
  BY <1>5, <1>7 DEF PutReset, PoolGoes
<1>8. CASE PutSend(u)
  <2>. DEFINE o == user[u].obj
              n == Len(idle)
  <2>1. user' = [user EXCEPT ![u] = [at |-> "out", obj |-> NoObject]] /\ user[u].at = "put"
        /\ UNCHANGED <<created, made, resets, content>>
    BY <1>8 DEF PutSend, PoolGoes
  <2>2. user'[u] = [at |-> "out", obj |-> NoObject] /\ \A w \in PoolUsers \ {u} : user'[w] = user[w]
    BY <2>1 DEF PoolInv
  <2>3. o \in 0..made /\ o # NoObject /\ o \in Objects /\ (resets => content[o] = Blank)
    BY <1>0, <2>1, PoolNumbers, PoolBounds DEF PoolInv, ObjectsAreExclusive, NoObject, Objects
  <2>4. user' \in [PoolUsers -> [at : PoolStates, obj : 0..made']]
    BY <1>0, <2>1, PoolNumbers DEF PoolInv, PoolStates, NoObject
  <2>5. created' + Cardinality(Creating') <= PoolMax + Cardinality(PoolUsers) - 1
    BY <2>1, CreatingGoes
  <2>6. \A w \in PoolUsers : user'[w].obj # NoObject <=> user'[w].at \in {"has", "uses", "put"}
    BY <2>2, <2>1 DEF PoolInv
  <2>7. \A w \in PoolUsers : user'[w].obj # NoObject => w # u /\ user'[w] = user[w] /\ user[w].obj # o
    BY <2>2, <2>3 DEF PoolInv, ObjectsAreExclusive
  <2>8. CASE ~(n < PoolMax)
    <3>1. idle' = idle
      BY <1>8, <2>8 DEF PutSend
    <3>2. ObjectsAreExclusive'
      BY <2>1, <2>7, <3>1 DEF PoolInv, ObjectsAreExclusive
    <3>3. PoolTypeOK'
      BY <1>0, <2>1, <2>4, <3>1 DEF PoolTypeOK, PoolStates
    <3>. QED  BY <2>1, <2>4, <2>5, <2>6, <3>1, <3>2, <3>3 DEF PoolInv
  <2>9. CASE n < PoolMax
    <3>1. idle' = Append(idle, o)
      BY <1>8, <2>9 DEF PutSend
    <3>2. /\ n \in Nat /\ idle' \in Seq(Objects) /\ Len(idle') = n + 1 /\ idle'[n + 1] = o
          /\ DOMAIN idle = 1..n /\ DOMAIN idle' = 1..(n + 1) /\ \A k \in 1..n : idle'[k] = idle[k]
      BY <1>0, <2>3, <3>1, AppendProperties, LenProperties
    <3>. HIDE DEF n
    <3>3. \A i \in DOMAIN idle' : (i \in DOMAIN idle /\ idle'[i] = idle[i]) \/ (i = n + 1 /\ idle'[i] = o)
      BY <3>2
    <3>4. \A i \in DOMAIN idle : idle[i] # o
      BY <2>3 DEF PoolInv, ObjectsAreExclusive
    <3>5. \A i, j \in DOMAIN idle' : idle'[i] = idle'[j] => i = j
      BY <3>3, <3>4 DEF PoolInv, ObjectsAreExclusive
    <3>6. ObjectsAreExclusive'
      BY <2>1, <2>7, <3>3, <3>5 DEF PoolInv, ObjectsAreExclusive
    <3>7. PoolTypeOK'
      BY <1>0, <2>1, <2>4, <2>9, <3>2, PoolBounds DEF PoolTypeOK, PoolStates, n
    <3>8. \A i \in DOMAIN idle' : idle'[i] <= made' /\ (resets' => content'[idle'[i]] = Blank)
      BY <1>0, <2>1, <2>3, <3>3, PoolNumbers DEF PoolInv
    <3>. QED  BY <2>1, <2>4, <2>5, <2>6, <3>6, <3>7, <3>8 DEF PoolInv
  <2>. QED  BY <2>8, <2>9
<1>. QED  BY <1>1, <1>2, <1>4, <1>6, <1>7, <1>8

-----------------------------------------------------------------------------
(* HotReload: whoever has noted the file's last version has loaded it, or  *)
(* is about to, or could not.                                              *)
UpToDate == entry.data = version \/ version \in failed
ReloadInv ==
  /\ ReloadTypeOK
  /\ watched \/ noticed # 0 \/ registering.at = "watch" => entry.known
  /\ ~plugin => /\ entry.data \in wellFormed \cup {Nothing}
                /\ watchLoop # "load" /\ entry.modTime = version => UpToDate
                /\ noticed = version =>
                     event \/ watchLoop \in {"change", "stat", "load", "ended"} \/ UpToDate

(***************************************************************************)
(* HotReload starts in its invariant and every step keeps it.              *)
(***************************************************************************)
LEMMA ReloadStarts == ReloadInit => ReloadInv /\ ConfigFollowsFile
<1>. SUFFICES ASSUME ReloadInit  PROVE ReloadInv /\ ConfigFollowsFile
  OBVIOUS
<1>1. ReloadTypeOK
  <2>1. entry \in [known : BOOLEAN, modTime : 0..version, data : 0..version]
    BY DEF ReloadInit, NoEntry, Nothing
  <2>2. registering \in [at : {"no", "load", "watch"}, modTime : 0..version]
    BY DEF ReloadInit, NoRegistering, Nothing
  <2>3. version = 1 /\ version \in FileVersions /\ wellFormed \subseteq FileVersions /\ readFaults \in 0..MaxReadFaults
    BY ReloadBounds DEF ReloadInit, FileVersions
  <2>4. failed \subseteq FileVersions /\ noticed \in 0..version /\ opened \in 0..version
    BY <2>3 DEF ReloadInit, Nothing
  <2>5. /\ plugin \in BOOLEAN /\ watched \in BOOLEAN /\ event \in BOOLEAN
        /\ watchLoop \in {"idle", "change", "stat", "load", "ended"}
    BY DEF ReloadInit
  <2>. QED  BY <2>1, <2>2, <2>3, <2>4, <2>5 DEF ReloadTypeOK
<1>2. version = 1 /\ noticed = 0 /\ entry.data = 0 /\ entry.modTime = 0 /\ ~watched
  BY DEF ReloadInit, NoEntry, Nothing
<1>3. registering.at = "no"
  BY DEF ReloadInit, NoRegistering
<1>. QED  BY <1>1, <1>2, <1>3 DEF ReloadInv, ConfigFollowsFile, Nothing

(***************************************************************************)
(* The invariant is ConfigFollowsFile once the loop is idle.               *)
(***************************************************************************)
LEMMA ReloadFollows == ReloadInv => ConfigFollowsFile
BY DEF ReloadInv, ConfigFollowsFile, UpToDate

(***************************************************************************)
(* Every step of HotReload keeps its invariant.                            *)
(***************************************************************************)
LEMMA ReloadSteps ==
  ASSUME ReloadInv, ReloadNext
  PROVE  ReloadInv'
<1>1. ReloadTypeOK
  BY DEF ReloadInv
<1>2. /\ version \in Nat /\ version >= 1 /\ version <= MaxFileVersion /\ noticed \in Nat /\ noticed <= version
      /\ entry \in [known : BOOLEAN, modTime : 0..version, data : 0..version]
      /\ registering \in [at : {"no", "load", "watch"}, modTime : 0..version] /\ MaxFileVersion \in Nat
  BY <1>1, ReloadBounds DEF ReloadTypeOK, FileVersions
<1>3. CASE RegisterStat
  BY <1>1, <1>2, <1>3 DEF RegisterStat, ReloadInv, ReloadTypeOK, UpToDate
<1>4. CASE RegisterLoad
  <2>1. UNCHANGED <<plugin, version, wellFormed, watched, event, watchLoop, noticed>>
    BY <1>4 DEF RegisterLoad
  <2>2. CASE LoadsInto(registering.modTime) /\ registering' = [registering EXCEPT !.at = "watch"]
    BY <1>1, <1>2, <2>1, <2>2 DEF LoadsInto, ReloadInv, ReloadTypeOK, UpToDate, FileVersions, Nothing
  <2>3. CASE LoadFails /\ registering' = NoRegistering /\ UNCHANGED entry
    BY <1>1, <1>2, <2>1, <2>3, ReloadBounds DEF LoadFails, NoRegistering, ReloadInv, ReloadTypeOK, UpToDate, FileVersions, Nothing
  <2>. QED  BY <1>4, <2>2, <2>3 DEF RegisterLoad
<1>5. CASE RegisterWatch
  BY <1>1, <1>2, <1>5 DEF RegisterWatch, NoRegistering, ReloadInv, ReloadTypeOK, UpToDate, Nothing
<1>6. ASSUME NEW good \in BOOLEAN, WriteFile(good)  PROVE ReloadInv'
  BY <1>1, <1>2, <1>6 DEF WriteFile, Written, ReloadInv, ReloadTypeOK, UpToDate, FileVersions
<1>7. ASSUME NEW good \in BOOLEAN, ReplaceFile(good)  PROVE ReloadInv'
  <2>1. /\ version' = version + 1 /\ version' <= MaxFileVersion /\ watched' = FALSE
        /\ wellFormed \subseteq wellFormed' /\ wellFormed' \subseteq wellFormed \cup {version'}
        /\ UNCHANGED <<plugin, event, entry, opened, registering, watchLoop, noticed, failed, readFaults>>
    BY <1>2, <1>7 DEF ReplaceFile, Written
  <2>2. ReloadTypeOK'
    <3>1. entry' \in [known : BOOLEAN, modTime : 0..version', data : 0..version']
      BY <1>2, <2>1
    <3>2. registering' \in [at : {"no", "load", "watch"}, modTime : 0..version']
      BY <1>2, <2>1
    <3>3. /\ version' \in FileVersions /\ wellFormed' \subseteq FileVersions
          /\ noticed' \in 0..version' /\ opened' \in 0..version'
      BY <1>1, <1>2, <2>1 DEF ReloadTypeOK, FileVersions
    <3>. QED  BY <1>1, <2>1, <3>1, <3>2, <3>3 DEF ReloadTypeOK
  <2>3. entry.modTime # version' /\ noticed # version'
    BY <1>2, <2>1
  <2>. QED  BY <2>1, <2>2, <2>3 DEF ReloadInv
<1>8. CASE TakeEvent
  BY <1>1, <1>2, <1>8 DEF TakeEvent, ReloadInv, ReloadTypeOK, UpToDate
<1>9. CASE HandleFileChange
  BY <1>1, <1>2, <1>9 DEF HandleFileChange, ReloadInv, ReloadTypeOK, UpToDate
<1>10. CASE ReloadStat
  <2>1. failed' = failed \cup {version} => failed' \subseteq FileVersions
    BY <1>1 DEF ReloadTypeOK
  <2>2. readFaults < MaxReadFaults /\ readFaults' = readFaults + 1 => readFaults' \in 0..MaxReadFaults
    BY <1>1, ReloadBounds DEF ReloadTypeOK
  <2>. QED  BY <1>1, <1>2, <1>10, <2>1, <2>2 DEF ReloadStat, ReloadInv, ReloadTypeOK, UpToDate
<1>11. CASE ReloadLoad
  <2>1. UNCHANGED <<plugin, version, wellFormed, watched, event, registering, noticed>>
        /\ watchLoop' = "idle"
    BY <1>11 DEF ReloadLoad
  <2>2. CASE LoadsInto(entry.modTime)
    BY <1>1, <1>2, <2>1, <2>2 DEF LoadsInto, ReloadInv, ReloadTypeOK, UpToDate, FileVersions, Nothing
  <2>3. CASE LoadFails /\ UNCHANGED entry
    BY <1>1, <1>2, <2>1, <2>3, ReloadBounds DEF LoadFails, ReloadInv, ReloadTypeOK, UpToDate, FileVersions, Nothing
  <2>. QED  BY <1>11, <2>2, <2>3 DEF ReloadLoad
<1>12. CASE CloseReload
  BY <1>1, <1>2, <1>12 DEF CloseReload, ReloadInv, ReloadTypeOK, UpToDate
<1>. QED  BY <1>3, <1>4, <1>5, <1>6, <1>7, <1>8, <1>9, <1>10, <1>11, <1>12 DEF ReloadNext

-----------------------------------------------------------------------------

(***************************************************************************)
(* Mailbox keeps its invariant while another part runs.                    *)
(***************************************************************************)
LEMMA MailRest ==
  ASSUME MailInv, UNCHANGED mailVars
  PROVE  MailInv'
BY DEF mailVars, claims, MailInv, MailTypes, MailsPosted, MailsClaimed, Opened, Spent, ClaimsApart,
       Doubled, Reused, RewardsClaimedOnce, SameMail

(***************************************************************************)
(* Games keeps its invariant while another part runs.                      *)
(***************************************************************************)
LEMMA GamesRest ==
  ASSUME GamesInv, UNCHANGED gameVars
  PROVE  GamesInv'
BY DEF gameVars, GamesInv, GameTypes, GamesNumbered, GamesStarted, VerdictsOfGames,
       VerdictsOnRecord, Locked, HasId, Verdict

(***************************************************************************)
(* Friends keeps its invariant while another part runs.                    *)
(***************************************************************************)
LEMMA FriendsRest ==
  ASSUME FriendsInv, UNCHANGED friendVars
  PROVE  FriendsInv'
BY DEF friendVars, FriendsInv, FriendTypes, Owed, HalfDeleted, Befriending, Accepting, Deleting,
       Rows, Overlaps, FriendRows

(***************************************************************************)
(* Bans keeps its invariant while another part runs.                       *)
(***************************************************************************)
LEMMA BansRest ==
  ASSUME BansInv, UNCHANGED banVars
  PROVE  BansInv'
BY DEF banVars, BansInv, BanTypes, BanRecords, BanLogsTold, FoundNone, Active, Logging

(***************************************************************************)
(* Center keeps its invariant while another part runs.                     *)
(***************************************************************************)
LEMMA CenterRest ==
  ASSUME CenterInv, UNCHANGED centerVars
  PROVE  CenterInv'
BY DEF centerVars, CenterInv, CenterTypes, RunningLives, OrdersNumbered, DueAreSent, OnceHandled,
       Running

(***************************************************************************)
(* CardRooms keeps its invariant while another part runs.                  *)
(***************************************************************************)
LEMMA CardsRest ==
  ASSUME CardsInv, UNCHANGED cardVars
  PROVE  CardsInv'
<1>1. UNCHANGED <<roomState, seated, deck, hands, events, action, atOnce, crossed, down, begins>>
  BY DEF cardVars
<1>2. /\ InDeck' = InDeck /\ OnTheWay' = OnTheWay /\ HandCells' = HandCells
      /\ \A p : Dealt(p)' = Dealt(p) /\ Known(p)' = Known(p) /\ Held(p)' = Held(p)
      /\ \A S : Drawers(S)' = Drawers(S)
  BY <1>1 DEF InDeck, OnTheWay, HandCells, Dealt, Known, Told, Drawn, Held, Drawers
<1>3. CardTypes' /\ BeforeTheRoom' /\ OneDraw' /\ OneStore'
  BY <1>1 DEF CardsInv, CardTypes, BeforeTheRoom, OneDraw, OneStore
<1>4. OnePlace'
  BY <1>1, <1>2 DEF CardsInv, OnePlace
<1>5. EveryCard'
  BY <1>1, <1>2 DEF CardsInv, EveryCard
<1>6. HandsKnown'
  BY <1>1, <1>2 DEF CardsInv, HandsKnown
<1>. QED  BY <1>3, <1>4, <1>5, <1>6 DEF CardsInv

(***************************************************************************)
(* MessageQueue keeps its invariant while another part runs.               *)
(***************************************************************************)
LEMMA QueueRest ==
  ASSUME QueueInv, UNCHANGED queueVars
  PROVE  QueueInv'
BY DEF queueVars, QueueInv, QueueTypes, HandlersFirst, CopiesKept, OneAtATime, RanAreKept,
       CommandsAreRun, qConfig, headers, nsqd

(***************************************************************************)
(* Migrations keeps its invariant while another part runs.                 *)
(***************************************************************************)
LEMMA MigrationsRest ==
  ASSUME MigrationsInv, UNCHANGED migrationVars
  PROVE  MigrationsInv'
BY DEF migrationVars, MigrationsInv, MigrationsTypeOK, AtVersions, Alone, GoesUp, GoesDown

(***************************************************************************)
(* ObjectPool keeps its invariant while another part runs.                 *)
(***************************************************************************)
LEMMA PoolRest ==
  ASSUME PoolInv, UNCHANGED poolVars
  PROVE  PoolInv'
BY DEF poolVars, PoolInv, PoolTypeOK, ObjectsAreExclusive, Creating

(***************************************************************************)
(* HotReload keeps its invariant while another part runs.                  *)
(***************************************************************************)
LEMMA ReloadRest ==
  ASSUME ReloadInv, UNCHANGED reloadVars
  PROVE  ReloadInv'
BY DEF reloadVars, ReloadInv, ReloadTypeOK, UpToDate

(***************************************************************************)
(* The inductive invariant of all the parts: it has the types and what     *)
(* each of the safety properties says.                                     *)
(***************************************************************************)
IInv ==
  /\ part \in Parts
  /\ MailInv /\ GamesInv /\ FriendsInv /\ BansInv /\ CenterInv
  /\ CardsInv /\ QueueInv /\ MigrationsInv /\ PoolInv /\ ReloadInv

(***************************************************************************)
(* A step of the services is one of a part while the others rest.          *)
(***************************************************************************)
LEMMA TurnOfAPart ==
  ASSUME [Next]_<<part, servers, packages>>
  PROVE  /\ UNCHANGED part
         /\ MailNext \/ UNCHANGED mailVars
         /\ GamesNext \/ UNCHANGED gameVars
         /\ FriendsNext \/ UNCHANGED friendVars
         /\ BansNext \/ UNCHANGED banVars
         /\ CenterNext \/ UNCHANGED centerVars
         /\ CardsNext \/ UNCHANGED cardVars
         /\ QueueNext \/ UNCHANGED queueVars
         /\ MigrationsNext \/ UNCHANGED migrationVars
         /\ PoolNext \/ UNCHANGED poolVars
         /\ ReloadNext \/ UNCHANGED reloadVars
<1>1. CASE Server /\ UNCHANGED part
  BY <1>1 DEF Server, packages
<1>2. CASE Package /\ UNCHANGED part
  BY <1>2 DEF Package, servers
<1>3. CASE UNCHANGED <<part, servers, packages>>
  BY <1>3 DEF servers, packages
<1>. QED  BY <1>1, <1>2, <1>3 DEF Next

(* The parts start in their invariants, and every step keeps them, for any *)
(* callers, nodes, players and users and any bounds.                       *)
THEOREM Invariance == Spec => []IInv
<1>1. Init => IInv
  <2>. SUFFICES ASSUME Init  PROVE IInv
    OBVIOUS
  <2>1. part \in Parts
    BY DEF Init
  <2>2. MailInv
    BY MailStarts DEF Init
  <2>3. GamesInv
    BY GamesStarts DEF Init
  <2>4. FriendsInv
    BY FriendsStarts DEF Init
  <2>5. BansInv
    BY BansStarts DEF Init
  <2>6. CenterInv
    BY CenterStarts DEF Init
  <2>7. CardsInv
    BY CardsStart DEF Init
  <2>8. QueueInv
    BY QueueStarts DEF Init
  <2>9. MigrationsInv
    BY MigrationsStart DEF Init
  <2>10. PoolInv
    BY PoolStarts DEF Init
  <2>11. ReloadInv
    BY ReloadStarts DEF Init
  <2>. QED  BY <2>1, <2>2, <2>3, <2>4, <2>5, <2>6, <2>7, <2>8, <2>9, <2>10, <2>11 DEF IInv
<1>2. IInv /\ [Next]_<<part, servers, packages>> => IInv'
  <2>. SUFFICES ASSUME IInv, [Next]_<<part, servers, packages>>  PROVE IInv'
    OBVIOUS
  <2>1. (part \in Parts)'
    BY TurnOfAPart DEF IInv, Parts
  <2>2. MailInv'
    BY TurnOfAPart, MailSteps, MailRest DEF IInv
  <2>3. GamesInv'
    BY TurnOfAPart, GamesSteps, GamesRest DEF IInv
  <2>4. FriendsInv'
    BY TurnOfAPart, FriendsSteps, FriendsRest DEF IInv
  <2>5. BansInv'
    BY TurnOfAPart, BansSteps, BansRest DEF IInv
  <2>6. CenterInv'
    BY TurnOfAPart, CenterSteps, CenterRest DEF IInv
  <2>7. CardsInv'
    BY TurnOfAPart, CardsSteps, CardsRest DEF IInv
  <2>8. QueueInv'
    BY TurnOfAPart, QueueSteps, QueueRest DEF IInv
  <2>9. MigrationsInv'
    BY TurnOfAPart, MigrationsStep, MigrationsRest DEF IInv
  <2>10. PoolInv'
    BY TurnOfAPart, PoolSteps, PoolRest DEF IInv
  <2>11. ReloadInv'
    BY TurnOfAPart, ReloadSteps, ReloadRest DEF IInv
  <2>. QED  BY <2>1, <2>2, <2>3, <2>4, <2>5, <2>6, <2>7, <2>8, <2>9, <2>10, <2>11 DEF IInv
<1>. QED  BY <1>1, <1>2, PTL DEF Spec

(* Every part stays within its types.                                      *)
THEOREM TypeCorrect == Spec => []TypeOK
<1>1. IInv => TypeOK
  <2>. SUFFICES ASSUME IInv  PROVE TypeOK
    OBVIOUS
  <2>1. MailTypeOK /\ GamesTypeOK /\ FriendsTypeOK /\ BansTypeOK /\ CenterTypeOK
    BY RewardsFollow, TellingFollows, FriendsFollow, OneBanFollows, StopsOnceFollow DEF IInv
  <2>2. CardsTypeOK /\ QueueTypeOK
    BY CardsFollow, CommandsFollow DEF IInv
  <2>3. MigrationsTypeOK /\ PoolTypeOK /\ ReloadTypeOK
    BY DEF IInv, MigrationsInv, PoolInv, ReloadInv
  <2>. QED  BY <2>1, <2>2, <2>3 DEF IInv, TypeOK
<1>. QED  BY <1>1, Invariance, PTL

(* The claims that ClaimRewards has told a success come to one for a mail  *)
(* with rewards, and the mail is claimed or deleted after it, however      *)
(* claims, reads and deletions of it follow each other or fail and wherever*)
(* the server crashes (claims that overlapped and a mail_id used twice are *)
(* the exceptions).                                                        *)
THEOREM RewardsAreClaimedOnce == Spec => []RewardsClaimedOnce
<1>1. IInv => RewardsClaimedOnce
  BY RewardsFollow DEF IInv
<1>. QED  BY <1>1, Invariance, PTL

(* A game ends once, however many calls of EndGame there are, and its      *)
(* record, when there is one, tells that end.                              *)
THEOREM RecordsTell == Spec => []RecordsTellGames
<1>1. IInv => RecordsTellGames
  BY TellingFollows DEF IInv
<1>. QED  BY <1>1, Invariance, PTL

(* Between calls two users have as many accepted rows for each other, though*)
(* AcceptFriend and DeleteFriend write the two directions one after the    *)
(* other, until one of the exceptions that uneven records.                 *)
THEOREM FriendsAreMutual == Spec => []FriendsOfEachOther
<1>1. IInv => FriendsOfEachOther
  BY FriendsFollow DEF IInv
<1>. QED  BY <1>1, Invariance, PTL

(* A user has one active record at most unless two bans have overlapped, and*)
(* the log of the administrators holds nothing that was not carried out.   *)
THEOREM BansAreSingle == Spec => []OneActiveBan
<1>1. IInv => OneActiveBan
  BY OneBanFollows DEF IInv
<1>. QED  BY <1>1, Invariance, PTL

(* An order of the center whose confirmation is not lost stops one life of *)
(* its node only, although the queue delivers it again.                    *)
THEOREM StopsComeOnce == Spec => []OrdersStopOnce
<1>1. IInv => OrdersStopOnce
  BY StopsOnceFollow DEF IInv
<1>. QED  BY <1>1, Invariance, PTL

(* As long as no two draws read the deck at once, no card is lost from deck*)
(* and hands unless two draws crossed in writing the hand of its player,   *)
(* and always a card of a hand is one whose draw is told of or under way.  *)
THEOREM CardsAreKept == Spec => []CardsAddUp
<1>1. IInv => CardsAddUp
  BY CardsFollow DEF IInv
<1>. QED  BY <1>1, Invariance, PTL

(* A message that Publish has acknowledged is with an nsqd, a copy of a    *)
(* registered command is finished only when its node has carried it out,   *)
(* and no other command is ever carried out.                               *)
THEOREM CommandsReachNodes == Spec => []CommandsAreRun
<1>1. IInv => CommandsAreRun
  BY CommandsFollow DEF IInv
<1>. QED  BY <1>1, Invariance, PTL

(* While runs do not overlap, the recorded versions are the first ones, and*)
(* each is in the schema or has a Down begun, wherever Up, Down or MigrateTo*)
(* was cut off.                                                            *)
THEOREM RecordsFollowSchema == Spec => []RecordsMatchSchema
<1>1. IInv => RecordsMatchSchema
  BY RecordsMatch DEF IInv
<1>. QED  BY <1>1, Invariance, PTL

(* An object of a GenericPool is in one place, and carries nothing but the *)
(* data of its holder if the pool resets objects, for any number of        *)
(* goroutines.                                                             *)
THEOREM ObjectsHaveOneHolder == Spec => []ObjectsAreExclusive
<1>1. IInv => ObjectsAreExclusive
  BY DEF IInv, PoolInv
<1>. QED  BY <1>1, Invariance, PTL

(* When the loop rests, the configuration is the last version of the file, *)
(* or that one could not be seen or loaded.                                *)
THEOREM ConfigIsCurrent == Spec => []ConfigFollowsFile
<1>1. IInv => ConfigFollowsFile
  BY ReloadFollows DEF IInv
<1>. QED  BY <1>1, Invariance, PTL
=============================================================================
