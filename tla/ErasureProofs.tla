--------------------------- MODULE ErasureProofs ---------------------------
(***************************************************************************)
(* Proofs about GuardianErasure, for any guardians, calls and tables.      *)
(*                                                                         *)
(* Type correctness needs OneHolder and SeveredThere: the links left by an *)
(* erasure are a natural number only because no other erasure deletes the  *)
(* same rows.  ErasedWhatWasThere needs to know what an erasure on its way *)
(* has gone through (SeenThere), ErasureClosesAccess that every erasure    *)
(* left its revocation (RevokedOnRecord); both compare times, which never  *)
(* lie after the clock (Clocked).                                          *)
(***************************************************************************)
EXTENDS GuardianErasure, TLAPS

Clocked ==
    /\ \A c \in Calls : began[c] <= clock
    /\ \A e \in erasures : e.began <= clock /\ e.committed <= clock

OneHolder ==
    \A c, d \in Calls : HoldsLearner(c) /\ HoldsLearner(d) => c = d

SeveredThere ==
    \A c \in Calls : pc[c] \in {"severing", "committing"} =>
        \A g \in Guardians : severed[c][g] <= links[g]

SeenThere ==
    \A c \in Calls :
        /\ HoldsLearner(c) =>
               \A r \in rows :
                   r.table \in ErasedTables \ todo[c] /\ r.at < began[c] =>
                       r \in seen[c]
        /\ pc[c] \in {"severing", "committing"} => todo[c] = {}

RevokedOnRecord ==
    \A e \in erasures :
        \E r \in consent_audit : /\ r.event_type = "consent_revoked"
                                 /\ r.occurred_at = e.occurred_at

Strengthening ==
    /\ Clocked
    /\ OneHolder
    /\ SeveredThere
    /\ SeenThere
    /\ RevokedOnRecord
    /\ ErasedWhatWasThere
    /\ ErasureClosesAccess

ErasureInv == ErasureTypeOK /\ Strengthening

-----------------------------------------------------------------------------
LEMMA ClockIsNat ==
    ASSUME ErasureTypeOK
    PROVE  /\ clock \in Nat /\ clock \in Times /\ clock + 1 \in Times
           /\ Times \subseteq Nat
BY CallsAssumption DEF ErasureTypeOK, Times

LEMMA InitEstablishesErasureInv == ErasureInit => ErasureInv
<1> SUFFICES ASSUME ErasureInit PROVE ErasureInv
  OBVIOUS
<1>1. 0 \in Times /\ 0 \in {2 * n : n \in 0..MaxCalls}
  BY CallsAssumption DEF Times
<1>2. ErasureTypeOK
  BY <1>1 DEF ErasureInit, ErasureTypeOK, PCs, Ops, NoLinks
<1>3. Strengthening
  BY DEF ErasureInit, Strengthening, Clocked, OneHolder, HoldsLearner,
         SeveredThere, SeenThere, RevokedOnRecord, ErasedWhatWasThere,
         ErasureClosesAccess, Verified
<1> QED
  BY <1>2, <1>3 DEF ErasureInv

(* A call that returns forgets, and disturbs nothing else.                 *)
LEMMA ReturnKeeps ==
    ASSUME ErasureInv, NEW c \in Calls, Return(c), UNCHANGED who
    PROVE  /\ pc' \in [Calls -> PCs] /\ op' \in [Calls -> Ops]
           /\ began' \in [Calls -> Times] /\ executed_at' \in [Calls -> Times]
           /\ todo' \in [Calls -> SUBSET ErasedTables]
           /\ seen' \in [Calls -> SUBSET PersonalRow]
           /\ severed' \in [Calls -> [Guardians -> Nat]]
           /\ pc'[c] = "idle" /\ began'[c] = 0
           /\ \A d \in Calls \ {c} :
                  /\ pc'[d] = pc[d] /\ began'[d] = began[d]
                  /\ todo'[d] = todo[d] /\ seen'[d] = seen[d]
                  /\ severed'[d] = severed[d]
<1>1. 0 \in Times /\ "access" \in Ops /\ "idle" \in PCs
      /\ NoLinks \in [Guardians -> Nat]
  BY CallsAssumption DEF Times, Ops, PCs, NoLinks
<1> QED
  BY <1>1 DEF ErasureInv, ErasureTypeOK, Return, Goto

(* So a call that returns, leaving the tables as they are, preserves all.  *)
LEMMA ReturnPreserves ==
    ASSUME ErasureInv, NEW c \in Calls, Return(c),
           UNCHANGED <<clock, links, rows, erasures, who>>,
           consent_audit \subseteq consent_audit',
           consent_audit' \subseteq ConsentRow,
           worker' = worker
    PROVE  ErasureInv'
<1>1. /\ pc' \in [Calls -> PCs] /\ op' \in [Calls -> Ops]
      /\ began' \in [Calls -> Times] /\ executed_at' \in [Calls -> Times]
      /\ todo' \in [Calls -> SUBSET ErasedTables]
      /\ seen' \in [Calls -> SUBSET PersonalRow]
      /\ severed' \in [Calls -> [Guardians -> Nat]]
      /\ pc'[c] = "idle" /\ began'[c] = 0
      /\ \A d \in Calls \ {c} :
             /\ pc'[d] = pc[d] /\ began'[d] = began[d]
             /\ todo'[d] = todo[d] /\ seen'[d] = seen[d]
             /\ severed'[d] = severed[d]
  BY ReturnKeeps
<1>2. ErasureTypeOK'
  BY <1>1 DEF ErasureInv, ErasureTypeOK
<1>3. Clocked'
  BY <1>1, ClockIsNat DEF ErasureInv, Strengthening, Clocked
<1>4. OneHolder' /\ SeveredThere'
  BY <1>1 DEF ErasureInv, Strengthening, OneHolder, HoldsLearner, SeveredThere
<1>5. SeenThere'
  BY <1>1 DEF ErasureInv, Strengthening, SeenThere, HoldsLearner
<1>6. RevokedOnRecord' /\ ErasedWhatWasThere'
  BY DEF ErasureInv, Strengthening, RevokedOnRecord, ErasedWhatWasThere
<1>7. ErasureClosesAccess'
  BY <1>1 DEF ErasureInv, Strengthening, ErasureClosesAccess, Verified
<1> QED
  BY <1>2, <1>3, <1>4, <1>5, <1>6, <1>7 DEF ErasureInv, Strengthening

-----------------------------------------------------------------------------
LEMMA CallKeepsInv ==
    ASSUME ErasureInv, NEW c \in Calls, NEW g \in Guardians, NEW o \in Ops,
           Call(c, g, o)
    PROVE  ErasureInv'
<1>1. clock' \in {2 * n : n \in 0..MaxCalls} /\ clock' \in Times
      /\ clock < clock'
  <2>1. PICK n \in 0..MaxCalls : clock = 2 * n
    BY DEF ErasureInv, ErasureTypeOK
  <2>2. n + 1 \in 0..MaxCalls /\ clock' = 2 * (n + 1)
    BY <2>1, CallsAssumption DEF Call
  <2> QED
    BY <2>1, <2>2, CallsAssumption DEF Times
<1>2. "link" \in PCs
  BY DEF PCs
<1>3. ErasureTypeOK'
  BY <1>1, <1>2 DEF Call, Goto, dbVars, ErasureInv, ErasureTypeOK
<1>4. /\ pc' = [pc EXCEPT ![c] = "link"] /\ began' = [began EXCEPT ![c] = clock']
      /\ pc \in [Calls -> PCs] /\ began \in [Calls -> Times]
      /\ UNCHANGED <<links, consent_audit, erasures, rows, todo, seen, severed>>
  BY DEF Call, Goto, dbVars, ErasureInv, ErasureTypeOK
<1>5. Clocked'
  BY <1>1, <1>4, ClockIsNat DEF ErasureInv, ErasureTypeOK, Strengthening,
                                Clocked, Erasure
<1>6. OneHolder' /\ SeveredThere'
  BY <1>4 DEF ErasureInv, Strengthening, OneHolder, HoldsLearner, SeveredThere
<1>7. SeenThere'
  BY <1>4 DEF ErasureInv, Strengthening, SeenThere, HoldsLearner
<1>8. RevokedOnRecord' /\ ErasedWhatWasThere'
  BY <1>4 DEF ErasureInv, Strengthening, RevokedOnRecord, ErasedWhatWasThere
<1>9. ErasureClosesAccess'
  BY <1>4 DEF ErasureInv, Strengthening, ErasureClosesAccess, Verified
<1> QED
  BY <1>3, <1>5, <1>6, <1>7, <1>8, <1>9 DEF ErasureInv, Strengthening

(* A call that moves on before it holds the learner's row.  If it moves    *)
(* past its verification, consent must stand.                              *)
LEMMA MovePreserves ==
    ASSUME ErasureInv, NEW c \in Calls, NEW at \in PCs, Goto(c, at),
           ~HoldsLearner(c) /\ at \notin {"erasing", "severing", "committing"},
           Verified(c) \/ ConsentStands \/ at \in {"insert", "verify"},
           UNCHANGED <<clock, dbVars, who, op, began, todo, seen, severed,
                       worker>>,
           executed_at' \in [Calls -> Times]
    PROVE  ErasureInv'
<1>1. /\ pc' = [pc EXCEPT ![c] = at] /\ pc \in [Calls -> PCs]
      /\ UNCHANGED <<links, consent_audit, erasures, rows>>
  BY DEF Goto, dbVars, ErasureInv, ErasureTypeOK
<1>2. ErasureTypeOK'
  BY <1>1 DEF dbVars, ErasureInv, ErasureTypeOK
<1>3. Clocked' /\ RevokedOnRecord' /\ ErasedWhatWasThere'
  BY <1>1 DEF ErasureInv, Strengthening, Clocked, RevokedOnRecord,
              ErasedWhatWasThere
<1>4. OneHolder' /\ SeveredThere'
  BY <1>1 DEF ErasureInv, Strengthening, OneHolder, HoldsLearner, SeveredThere
<1>5. SeenThere'
  BY <1>1 DEF ErasureInv, Strengthening, SeenThere, HoldsLearner
<1>6. ErasureClosesAccess'
  <2> SUFFICES ASSUME NEW d \in Calls, NEW e \in erasures,
                      Verified(d)', e.committed < began[d]
               PROVE  \E g \in consent_audit :
                          /\ g.event_type = "consent_granted"
                          /\ g.occurred_at >= e.occurred_at
    BY <1>1 DEF ErasureClosesAccess
  <2>1. CASE Verified(d)
    BY <2>1 DEF ErasureInv, Strengthening, ErasureClosesAccess
  <2>2. CASE ~Verified(d)
    <3>1. d = c /\ ConsentStands
      BY <1>1, <2>2 DEF Verified
    <3>2. PICK g \in consent_audit :
              /\ g.event_type = "consent_granted"
              /\ \A r \in consent_audit :
                     r.event_type = "consent_revoked" =>
                         r.occurred_at <= g.occurred_at
      BY <3>1 DEF ConsentStands
    <3>3. PICK r \in consent_audit : /\ r.event_type = "consent_revoked"
                                     /\ r.occurred_at = e.occurred_at
      BY DEF ErasureInv, Strengthening, RevokedOnRecord
    <3>4. g.occurred_at \in Nat /\ r.occurred_at \in Nat
      BY ClockIsNat DEF ErasureInv, ErasureTypeOK, ConsentRow
    <3> QED
      BY <3>2, <3>3, <3>4
  <2> QED
    BY <2>1, <2>2
<1> QED
  BY <1>2, <1>3, <1>4, <1>5, <1>6 DEF ErasureInv, Strengthening

LEMMA CheckLinkKeepsInv ==
    ASSUME ErasureInv, NEW c \in Calls, CheckLink(c) PROVE ErasureInv'
<1>1. CASE Return(c)
  BY <1>1, ReturnPreserves DEF CheckLink, dbVars, ErasureInv, ErasureTypeOK
<1>2. ASSUME NEW at \in {"insert", "verify"}, Goto(c, at), UNCHANGED localVars
      PROVE  ErasureInv'
  <2>1. at \in PCs /\ at \notin {"erasing", "severing", "committing"}
        /\ ~HoldsLearner(c)
    BY DEF PCs, HoldsLearner, CheckLink
  <2> QED
    BY <1>2, <2>1, MovePreserves
       DEF CheckLink, localVars, ErasureInv, ErasureTypeOK
<1> QED
  BY <1>1, <1>2 DEF CheckLink, GotoOrReturn

LEMMA VerifyKeepsInv ==
    ASSUME ErasureInv, NEW c \in Calls, Verify(c) PROVE ErasureInv'
<1>1. CASE Return(c)
  BY <1>1, ReturnPreserves DEF Verify, dbVars, ErasureInv, ErasureTypeOK
<1>2. ASSUME NEW at \in {"executing", "answer"}, Goto(c, at),
             UNCHANGED localVars, ConsentStands
      PROVE  ErasureInv'
  <2>1. at \in PCs /\ at \notin {"erasing", "severing", "committing"}
        /\ ~HoldsLearner(c)
    BY DEF PCs, HoldsLearner, Verify
  <2> QED
    BY <1>2, <2>1, MovePreserves DEF Verify, localVars, ErasureInv, ErasureTypeOK
<1> QED
  BY <1>1, <1>2 DEF Verify, GotoOrReturn

LEMMA StartExecutionKeepsInv ==
    ASSUME ErasureInv, NEW c \in Calls, StartExecution(c) PROVE ErasureInv'
<1>1. "waiting" \in PCs /\ ~HoldsLearner(c) /\ Verified(c)
  BY DEF PCs, HoldsLearner, Verified, StartExecution
<1>2. executed_at' \in [Calls -> Times]
  BY ClockIsNat DEF StartExecution, ErasureInv, ErasureTypeOK
<1> QED
  BY <1>1, <1>2, MovePreserves DEF StartExecution

LEMMA InsertLinkKeepsInv ==
    ASSUME ErasureInv, NEW c \in Calls, InsertLink(c) PROVE ErasureInv'
<1>0. Return(c) /\ UNCHANGED who
  BY DEF InsertLink
<1>1. /\ pc' \in [Calls -> PCs] /\ op' \in [Calls -> Ops]
      /\ began' \in [Calls -> Times] /\ executed_at' \in [Calls -> Times]
      /\ todo' \in [Calls -> SUBSET ErasedTables]
      /\ seen' \in [Calls -> SUBSET PersonalRow]
      /\ severed' \in [Calls -> [Guardians -> Nat]]
      /\ pc'[c] = "idle" /\ began'[c] = 0
      /\ \A d \in Calls \ {c} :
             /\ pc'[d] = pc[d] /\ began'[d] = began[d]
             /\ todo'[d] = todo[d] /\ seen'[d] = seen[d]
             /\ severed'[d] = severed[d]
  BY <1>0, ReturnKeeps
<1>2. links' \in [Guardians -> Nat] /\ \A g \in Guardians : links[g] <= links'[g]
  BY DEF InsertLink, ErasureInv, ErasureTypeOK
<1>3. ErasureTypeOK'
  BY <1>1, <1>2 DEF InsertLink, ErasureInv, ErasureTypeOK
<1>4. UNCHANGED <<clock, consent_audit, erasures, rows>>
  BY DEF InsertLink
<1>5. Clocked'
  BY <1>1, <1>4, ClockIsNat DEF ErasureInv, Strengthening, Clocked
<1>6. OneHolder'
  BY <1>1 DEF ErasureInv, Strengthening, OneHolder, HoldsLearner
<1>7. SeveredThere'
  <2> SUFFICES ASSUME NEW d \in Calls, pc'[d] \in {"severing", "committing"},
                      NEW g \in Guardians
               PROVE  severed'[d][g] <= links'[g]
    BY DEF SeveredThere
  <2>1. pc'[d] = pc[d] /\ severed'[d][g] = severed[d][g]
    BY <1>1
  <2>2. severed[d][g] <= links[g]
    BY <2>1 DEF ErasureInv, Strengthening, SeveredThere
  <2>3. severed[d][g] \in Nat /\ links[g] \in Nat /\ links'[g] \in Nat
    BY <1>2 DEF ErasureInv, ErasureTypeOK
  <2> QED
    BY <1>2, <2>1, <2>2, <2>3
<1>8. SeenThere'
  BY <1>1, <1>4 DEF ErasureInv, Strengthening, SeenThere, HoldsLearner
<1>9. RevokedOnRecord' /\ ErasedWhatWasThere'
  BY <1>4 DEF ErasureInv, Strengthening, RevokedOnRecord, ErasedWhatWasThere
<1>10. ErasureClosesAccess'
  BY <1>1, <1>4 DEF ErasureInv, Strengthening, ErasureClosesAccess, Verified
<1> QED
  BY <1>3, <1>5, <1>6, <1>7, <1>8, <1>9, <1>10 DEF ErasureInv, Strengthening

LEMMA InsertConsentKeepsInv ==
    ASSUME ErasureInv, NEW c \in Calls, InsertConsent(c) PROVE ErasureInv'
<1>1. consent_audit \subseteq consent_audit' /\ consent_audit' \subseteq ConsentRow
  BY DEF InsertConsent, ErasureInv, ErasureTypeOK, ConsentRow
<1> QED
  BY <1>1, ReturnPreserves DEF InsertConsent, ErasureInv, ErasureTypeOK

LEMMA AnswerKeepsInv ==
    ASSUME ErasureInv, NEW c \in Calls, Answer(c) PROVE ErasureInv'
BY ReturnPreserves DEF Answer, dbVars, ErasureInv, ErasureTypeOK

LEMMA FailKeepsInv ==
    ASSUME ErasureInv, NEW c \in Calls, Fail(c) PROVE ErasureInv'
BY ReturnPreserves DEF Fail, dbVars, ErasureInv, ErasureTypeOK

-----------------------------------------------------------------------------
LEMMA UpdateLearnerKeepsInv ==
    ASSUME ErasureInv, NEW c \in Calls, UpdateLearner(c) PROVE ErasureInv'
<1>1. /\ pc' = [pc EXCEPT ![c] = "erasing"] /\ pc \in [Calls -> PCs]
      /\ todo' = [todo EXCEPT ![c] = ErasedTables]
      /\ todo \in [Calls -> SUBSET ErasedTables]
      /\ pc[c] = "waiting"
      /\ UNCHANGED <<clock, links, consent_audit, erasures, rows, began, seen,
                     severed>>
  BY DEF UpdateLearner, Goto, dbVars, ErasureInv, ErasureTypeOK
<1>2. ErasureTypeOK'
  BY <1>1 DEF UpdateLearner, dbVars, ErasureInv, ErasureTypeOK, PCs
<1>3. Clocked' /\ RevokedOnRecord' /\ ErasedWhatWasThere'
  BY <1>1 DEF ErasureInv, Strengthening, Clocked, RevokedOnRecord,
              ErasedWhatWasThere
<1>4. OneHolder'
  BY <1>1 DEF UpdateLearner, OneHolder, HoldsLearner
<1>5. SeveredThere' /\ ErasureClosesAccess'
  BY <1>1 DEF ErasureInv, Strengthening, SeveredThere, ErasureClosesAccess,
              Verified
<1>6. SeenThere'
  BY <1>1 DEF ErasureInv, Strengthening, SeenThere, HoldsLearner
<1> QED
  BY <1>2, <1>3, <1>4, <1>5, <1>6 DEF ErasureInv, Strengthening

LEMMA EraseTableKeepsInv ==
    ASSUME ErasureInv, NEW c \in Calls, NEW t \in ErasedTables, EraseTable(c, t)
    PROVE  ErasureInv'
<1>1. /\ seen' = [seen EXCEPT ![c] = @ \cup {r \in rows : r.table = t}]
      /\ seen \in [Calls -> SUBSET PersonalRow]
      /\ todo' = [todo EXCEPT ![c] = @ \ {t}]
      /\ todo \in [Calls -> SUBSET ErasedTables]
      /\ pc[c] = "erasing"
      /\ UNCHANGED <<clock, links, consent_audit, erasures, rows, began, pc,
                     severed>>
  BY DEF EraseTable, dbVars, ErasureInv, ErasureTypeOK
<1>2. ErasureTypeOK'
  BY <1>1 DEF EraseTable, dbVars, ErasureInv, ErasureTypeOK
<1>3. Clocked' /\ RevokedOnRecord' /\ ErasedWhatWasThere' /\ OneHolder'
      /\ SeveredThere' /\ ErasureClosesAccess'
  BY <1>1 DEF ErasureInv, Strengthening, Clocked, RevokedOnRecord,
              ErasedWhatWasThere, OneHolder, HoldsLearner, SeveredThere,
              ErasureClosesAccess, Verified
<1>4. SeenThere'
  <2>1. ASSUME NEW d \in Calls, HoldsLearner(d)', NEW r \in rows',
               r.table \in ErasedTables \ todo'[d], r.at < began'[d]
        PROVE  r \in seen'[d]
    <3>1. HoldsLearner(d)
      BY <1>1, <2>1 DEF HoldsLearner
    <3>2. CASE r.table \notin todo[d]
      BY <1>1, <2>1, <3>1, <3>2 DEF ErasureInv, Strengthening, SeenThere
    <3>3. CASE r.table \in todo[d]
      BY <1>1, <2>1, <3>3
    <3> QED
      BY <3>2, <3>3
  <2>2. ASSUME NEW d \in Calls, pc'[d] \in {"severing", "committing"}
        PROVE  todo'[d] = {}
    BY <1>1, <2>2 DEF ErasureInv, Strengthening, SeenThere
  <2> QED
    BY <2>1, <2>2 DEF SeenThere
<1> QED
  BY <1>2, <1>3, <1>4 DEF ErasureInv, Strengthening

LEMMA SeverLinksKeepsInv ==
    ASSUME ErasureInv, NEW c \in Calls, SeverLinks(c) PROVE ErasureInv'
<1>1. /\ pc' = [pc EXCEPT ![c] = "severing"] /\ pc \in [Calls -> PCs]
      /\ pc[c] = "erasing" /\ todo[c] = {}
      /\ severed' = [severed EXCEPT ![c] = links]
      /\ severed \in [Calls -> [Guardians -> Nat]]
      /\ links \in [Guardians -> Nat]
      /\ UNCHANGED <<clock, links, consent_audit, erasures, rows, began, seen,
                     todo>>
  BY DEF SeverLinks, Goto, dbVars, ErasureInv, ErasureTypeOK
<1>2. ErasureTypeOK'
  BY <1>1 DEF SeverLinks, dbVars, ErasureInv, ErasureTypeOK, PCs
<1>3. Clocked' /\ RevokedOnRecord' /\ ErasedWhatWasThere' /\ OneHolder'
  BY <1>1 DEF ErasureInv, Strengthening, Clocked, RevokedOnRecord,
              ErasedWhatWasThere, OneHolder, HoldsLearner
<1>4. SeveredThere'
  BY <1>1 DEF ErasureInv, Strengthening, SeveredThere
<1>5. SeenThere' /\ ErasureClosesAccess'
  BY <1>1 DEF ErasureInv, Strengthening, SeenThere, HoldsLearner,
              ErasureClosesAccess, Verified
<1> QED
  BY <1>2, <1>3, <1>4, <1>5 DEF ErasureInv, Strengthening

LEMMA DropCachesKeepsInv ==
    ASSUME ErasureInv, NEW c \in Calls, DropCaches(c) PROVE ErasureInv'
<1>1. /\ pc' = [pc EXCEPT ![c] = "committing"] /\ pc \in [Calls -> PCs]
      /\ pc[c] = "severing"
      /\ UNCHANGED <<clock, links, consent_audit, erasures, rows, began, seen,
                     todo, severed>>
  BY DEF DropCaches, Goto, dbVars, localVars, ErasureInv, ErasureTypeOK
<1>2. ErasureTypeOK'
  BY <1>1 DEF DropCaches, dbVars, localVars, ErasureInv, ErasureTypeOK, PCs
<1>3. Clocked' /\ RevokedOnRecord' /\ ErasedWhatWasThere' /\ OneHolder'
      /\ SeveredThere'
  BY <1>1 DEF ErasureInv, Strengthening, Clocked, RevokedOnRecord,
              ErasedWhatWasThere, OneHolder, HoldsLearner, SeveredThere
<1>4. SeenThere' /\ ErasureClosesAccess'
  BY <1>1 DEF ErasureInv, Strengthening, SeenThere, HoldsLearner,
              ErasureClosesAccess, Verified
<1> QED
  BY <1>2, <1>3, <1>4 DEF ErasureInv, Strengthening

LEMMA CommitErasureKeepsInv ==
    ASSUME ErasureInv, NEW c \in Calls, CommitErasure(c) PROVE ErasureInv'
<1> DEFINE revocation == [event_type |-> "consent_revoked",
                          occurred_at |-> executed_at[c]]
           erasure == [began |-> began[c], occurred_at |-> executed_at[c],
                       committed |-> clock]
<1>1. /\ pc' \in [Calls -> PCs] /\ op' \in [Calls -> Ops]
      /\ began' \in [Calls -> Times] /\ executed_at' \in [Calls -> Times]
      /\ todo' \in [Calls -> SUBSET ErasedTables]
      /\ seen' \in [Calls -> SUBSET PersonalRow]
      /\ severed' \in [Calls -> [Guardians -> Nat]]
      /\ pc'[c] = "idle" /\ began'[c] = 0
      /\ \A d \in Calls \ {c} :
             /\ pc'[d] = pc[d] /\ began'[d] = began[d]
             /\ todo'[d] = todo[d] /\ seen'[d] = seen[d]
             /\ severed'[d] = severed[d]
  BY ReturnKeeps DEF CommitErasure
<1>2. /\ pc[c] = "committing" /\ clock' = clock
      /\ rows' = rows \ seen[c]
      /\ links' = [g \in Guardians |-> links[g] - severed[c][g]]
      /\ consent_audit' = consent_audit \cup {revocation}
      /\ erasures' = erasures \cup {erasure}
  BY DEF CommitErasure
<1>3. /\ revocation \in ConsentRow /\ erasure \in Erasure
      /\ began[c] \in Nat /\ clock \in Nat
  BY ClockIsNat DEF ErasureInv, ErasureTypeOK, ConsentRow, Erasure
<1>4. links' \in [Guardians -> Nat]
  <2> SUFFICES ASSUME NEW g \in Guardians PROVE links[g] - severed[c][g] \in Nat
    BY <1>2
  <2>1. severed[c][g] <= links[g]
    BY <1>2 DEF ErasureInv, Strengthening, SeveredThere
  <2>2. severed[c][g] \in Nat /\ links[g] \in Nat
    BY DEF ErasureInv, ErasureTypeOK
  <2> QED
    BY <2>1, <2>2
<1>5. ErasureTypeOK'
  BY <1>1, <1>2, <1>3, <1>4 DEF CommitErasure, ErasureInv, ErasureTypeOK
<1>6. Clocked'
  <2>1. erasure.began <= clock /\ erasure.committed <= clock
    BY <1>3 DEF ErasureInv, Strengthening, Clocked
  <2>2. \A d \in Calls : began'[d] <= clock
    BY <1>1, <1>3 DEF ErasureInv, Strengthening, Clocked
  <2> QED
    BY <1>2, <2>1, <2>2 DEF ErasureInv, Strengthening, Clocked
<1>7. \A d \in Calls : ~HoldsLearner(d)'
  BY <1>1, <1>2 DEF ErasureInv, Strengthening, OneHolder, HoldsLearner
<1>8. OneHolder' /\ SeveredThere' /\ SeenThere'
  BY <1>7 DEF OneHolder, SeveredThere, SeenThere, HoldsLearner
<1>9. RevokedOnRecord'
  <2> SUFFICES ASSUME NEW e \in erasures'
               PROVE  \E r \in consent_audit' :
                          /\ r.event_type = "consent_revoked"
                          /\ r.occurred_at = e.occurred_at
    BY DEF RevokedOnRecord
  <2>1. CASE e \in erasures
    BY <1>2, <2>1 DEF ErasureInv, Strengthening, RevokedOnRecord
  <2>2. CASE e = erasure
    <3>1. revocation \in consent_audit'
      BY <1>2
    <3>2. /\ revocation.event_type = "consent_revoked"
          /\ revocation.occurred_at = e.occurred_at
      BY <2>2
    <3> HIDE DEF revocation
    <3> QED
      BY <3>1, <3>2
  <2> QED
    BY <1>2, <2>1, <2>2
<1>10. ErasedWhatWasThere'
  <2> SUFFICES ASSUME NEW e \in erasures', NEW r \in rows',
                      r.table \in ErasedTables
               PROVE  r.at >= e.began
    BY DEF ErasedWhatWasThere
  <2>1. CASE e \in erasures
    BY <1>2, <2>1 DEF ErasureInv, Strengthening, ErasedWhatWasThere
  <2>2. CASE e = erasure
    <3>1. todo[c] = {} /\ HoldsLearner(c)
      BY <1>2 DEF ErasureInv, Strengthening, SeenThere, HoldsLearner
    <3>2. ~(r.at < began[c])
      BY <1>2, <3>1 DEF ErasureInv, Strengthening, SeenThere
    <3>3. r.at \in Nat
      BY <1>2, ClockIsNat DEF ErasureInv, ErasureTypeOK, PersonalRow
    <3> QED
      BY <1>3, <2>2, <3>2, <3>3
  <2> QED
    BY <1>2, <2>1, <2>2
<1>11. ErasureClosesAccess'
  <2> SUFFICES ASSUME NEW d \in Calls, NEW e \in erasures',
                      Verified(d)', e.committed < began'[d]
               PROVE  \E g \in consent_audit' :
                          /\ g.event_type = "consent_granted"
                          /\ g.occurred_at >= e.occurred_at
    BY DEF ErasureClosesAccess
  <2>1. d # c /\ Verified(d) /\ began'[d] = began[d]
    BY <1>1 DEF Verified
  <2>2. e \in erasures
    <3>1. began[d] <= clock /\ began[d] \in Nat
      BY ClockIsNat DEF ErasureInv, ErasureTypeOK, Strengthening, Clocked
    <3> QED
      BY <1>2, <1>3, <2>1, <3>1
  <2>3. \E g \in consent_audit :
            /\ g.event_type = "consent_granted"
            /\ g.occurred_at >= e.occurred_at
    BY <2>1, <2>2 DEF ErasureInv, Strengthening, ErasureClosesAccess
  <2> QED
    BY <1>2, <2>3
<1> QED
  BY <1>5, <1>6, <1>8, <1>9, <1>10, <1>11 DEF ErasureInv, Strengthening

-----------------------------------------------------------------------------
LEMMA WorkerPersistsKeepsInv ==
    ASSUME ErasureInv, NEW t \in Tables, WorkerPersists(t) PROVE ErasureInv'
<1> DEFINE row == [table |-> t, at |-> clock]
<1>1. /\ rows' = rows \cup {row}
      /\ UNCHANGED <<clock, links, consent_audit, erasures, pc, op, began, todo,
                     seen, severed>>
  BY DEF WorkerPersists, callVars, localVars
<1>2. row \in PersonalRow /\ clock \in Nat
  BY ClockIsNat DEF PersonalRow, ErasureInv
<1>3. ErasureTypeOK'
  BY <1>1, <1>2 DEF WorkerPersists, callVars, localVars, ErasureInv, ErasureTypeOK
<1>4. Clocked' /\ RevokedOnRecord' /\ OneHolder' /\ SeveredThere'
      /\ ErasureClosesAccess'
  BY <1>1 DEF ErasureInv, Strengthening, Clocked, RevokedOnRecord, OneHolder,
              HoldsLearner, SeveredThere, ErasureClosesAccess, Verified
<1>5. \A d \in Calls : ~(row.at < began[d])
  <2> SUFFICES ASSUME NEW d \in Calls PROVE ~(clock < began[d])
    OBVIOUS
  <2>1. began[d] <= clock
    BY DEF ErasureInv, Strengthening, Clocked
  <2>2. began[d] \in Nat
    BY ClockIsNat DEF ErasureInv, ErasureTypeOK
  <2> QED
    BY <1>2, <2>1, <2>2
<1>6. SeenThere'
  BY <1>1, <1>5 DEF ErasureInv, Strengthening, SeenThere, HoldsLearner
<1>7. \A e \in erasures : row.at >= e.began
  BY DEF ErasureInv, Strengthening, Clocked
<1>8. ErasedWhatWasThere'
  BY <1>1, <1>7 DEF ErasureInv, Strengthening, ErasedWhatWasThere
<1> QED
  BY <1>3, <1>4, <1>6, <1>8 DEF ErasureInv, Strengthening

(* A worker that checks consent changes nothing of an erasure's.           *)
LEMMA WorkerChecksKeepsInv ==
    ASSUME ErasureInv, WorkerChecks PROVE ErasureInv'
<1>1. UNCHANGED <<clock, links, consent_audit, erasures, rows, callVars>>
      /\ worker' \in {"idle", "checked"}
  BY DEF WorkerChecks, dbVars
<1>2. ErasureTypeOK'
  BY <1>1 DEF callVars, localVars, ErasureInv, ErasureTypeOK
<1>3. Strengthening'
  BY <1>1 DEF callVars, localVars, ErasureInv, Strengthening, Clocked, OneHolder,
              HoldsLearner, SeveredThere, SeenThere, RevokedOnRecord,
              ErasedWhatWasThere, ErasureClosesAccess, Verified
<1> QED
  BY <1>2, <1>3 DEF ErasureInv

LEMMA StutterKeepsErasureInv ==
    ErasureInv /\ UNCHANGED erasureVars => ErasureInv'
BY DEF erasureVars, dbVars, callVars, localVars, ErasureInv, ErasureTypeOK,
       Strengthening, Clocked, OneHolder, HoldsLearner, SeveredThere, SeenThere,
       RevokedOnRecord, ErasedWhatWasThere, ErasureClosesAccess, Verified

LEMMA ErasureInvAlways == ErasureSpec => []ErasureInv
<1>1. ErasureInv /\ [ErasureNext]_erasureVars => ErasureInv'
  <2> SUFFICES ASSUME ErasureInv, [ErasureNext]_erasureVars PROVE ErasureInv'
    OBVIOUS
  <2>1. CASE UNCHANGED erasureVars
    BY <2>1, StutterKeepsErasureInv
  <2>2. ASSUME NEW c \in Calls, NEW g \in Guardians, NEW o \in Ops, Call(c, g, o)
        PROVE  ErasureInv'
    BY <2>2, CallKeepsInv
  <2>3. ASSUME NEW c \in Calls, Proceed(c) PROVE ErasureInv'
    BY <2>3, CheckLinkKeepsInv, InsertLinkKeepsInv, InsertConsentKeepsInv,
       VerifyKeepsInv, AnswerKeepsInv, StartExecutionKeepsInv,
       UpdateLearnerKeepsInv, EraseTableKeepsInv, SeverLinksKeepsInv,
       DropCachesKeepsInv, CommitErasureKeepsInv DEF Proceed
  <2>4. ASSUME NEW c \in Calls, Fail(c) PROVE ErasureInv'
    BY <2>4, FailKeepsInv
  <2>5. ASSUME NEW t \in Tables, WorkerPersists(t) PROVE ErasureInv'
    BY <2>5, WorkerPersistsKeepsInv
  <2>6. CASE WorkerChecks
    BY <2>6, WorkerChecksKeepsInv
  <2> QED
    BY <2>1, <2>2, <2>3, <2>4, <2>5, <2>6 DEF ErasureNext
<1> QED
  BY <1>1, InitEstablishesErasureInv, PTL DEF ErasureSpec

-----------------------------------------------------------------------------
(* Every state that guardians, erasures and workers can reach is          *)
(* well typed; in particular no erasure deletes links that are not there.  *)
THEOREM ErasureTypeCorrect == ErasureSpec => []ErasureTypeOK
BY ErasureInvAlways, PTL DEF ErasureInv

(* execute_deletion leaves no row of before it was called in the tables it *)
(* goes through, for any number of guardians erasing at the same time.     *)
THEOREM ErasuresEraseWhatWasThere == ErasureSpec => []ErasedWhatWasThere
BY ErasureInvAlways, PTL DEF ErasureInv, Strengthening

(* After an erasure nobody is let through to the learner's data, by any    *)
(* call, until consent is granted anew.                                    *)
THEOREM ErasuresCloseAccess == ErasureSpec => []ErasureClosesAccess
BY ErasureInvAlways, PTL DEF ErasureInv, Strengthening

-----------------------------------------------------------------------------
(* README.md says that deletion "atomically revokes consent", and the run  *)
(* erasure_revokes shows that consent may stand when it has committed.     *)
(* What is true is that it then stands on a grant of a request that began  *)
(* after execute_deletion took its executed_at: no grant from before that  *)
(* moment outlives the erasure.  The two kinds of times never meet.        *)

Even == {2 * n : n \in 0..MaxCalls}
Odd == {2 * n + 1 : n \in 0..MaxCalls}

Parity ==
    /\ \A c \in Calls :
           /\ began[c] \in Even
           /\ pc[c] = "waiting" \/ HoldsLearner(c) => executed_at[c] \in Odd
    /\ \A g \in consent_audit :
           g.event_type = "consent_granted" => g.occurred_at \in Even
    /\ \A e \in erasures : e.occurred_at \in Odd

ConsentStandsOnLaterGrant ==
    \A e \in erasures : ConsentStands =>
        \E g \in consent_audit :
            /\ g.event_type = "consent_granted"
            /\ g.occurred_at > e.occurred_at

LEMMA ParityPreserved ==
    ErasureTypeOK /\ Parity /\ [ErasureNext]_erasureVars => Parity'
<1> SUFFICES ASSUME ErasureTypeOK, Parity, [ErasureNext]_erasureVars
             PROVE  Parity'
  OBVIOUS
<1>0. /\ pc \in [Calls -> PCs] /\ began \in [Calls -> Times]
      /\ executed_at \in [Calls -> Times] /\ 0 \in Even
      /\ \A c \in Calls : /\ began[c] \in Even
                          /\ pc[c] = "waiting" \/ HoldsLearner(c)
                                 => executed_at[c] \in Odd
  BY CallsAssumption DEF ErasureTypeOK, Parity, Even
<1>1. ASSUME NEW c \in Calls, Return(c), UNCHANGED <<consent_audit, erasures>>
      PROVE  Parity'
  BY <1>0, <1>1 DEF Return, Goto, Parity, HoldsLearner
<1>2. ASSUME NEW c \in Calls, NEW at, Goto(c, at),
             at \notin {"waiting", "erasing"}, HoldsLearner(c)
                \/ at \notin {"severing", "committing"},
             UNCHANGED <<consent_audit, erasures, began, executed_at>>
      PROVE  Parity'
  BY <1>0, <1>2 DEF Goto, Parity, HoldsLearner
<1>3. ASSUME NEW c \in Calls, NEW g \in Guardians, NEW o \in Ops, Call(c, g, o)
      PROVE  Parity'
  <2>1. clock' \in Even
    <3>1. PICK n \in 0..MaxCalls : clock = 2 * n
      BY DEF ErasureTypeOK
    <3>2. n + 1 \in 0..MaxCalls /\ clock' = 2 * (n + 1)
      BY <1>3, <3>1, CallsAssumption DEF Call
    <3> QED
      BY <3>2 DEF Even
  <2> QED
    BY <1>0, <1>3, <2>1 DEF Call, Goto, dbVars, Parity, HoldsLearner
<1>4. ASSUME NEW c \in Calls, CheckLink(c) \/ Verify(c) PROVE Parity'
  <2>1. \/ Return(c)
        \/ \E at \in {"insert", "verify", "executing", "answer"} :
               Goto(c, at) /\ UNCHANGED localVars
    BY <1>4 DEF CheckLink, Verify, GotoOrReturn
  <2> QED
    BY <1>1, <1>2, <1>4, <2>1 DEF CheckLink, Verify, dbVars, localVars
<1>5. ASSUME NEW c \in Calls, InsertLink(c) \/ Answer(c) \/ Fail(c)
      PROVE  Parity'
  BY <1>1, <1>5 DEF InsertLink, Answer, Fail, dbVars
<1>6. ASSUME NEW c \in Calls, InsertConsent(c) PROVE Parity'
  <2>1. \A g \in consent_audit' \ consent_audit : g.occurred_at \in Even
    BY <1>0, <1>6 DEF InsertConsent
  <2> QED
    BY <1>0, <1>6, <2>1 DEF InsertConsent, Return, Goto, Parity, HoldsLearner
<1>7. ASSUME NEW c \in Calls, StartExecution(c) PROVE Parity'
  <2>1. clock + 1 \in Odd
    BY DEF ErasureTypeOK, Odd
  <2> QED
    BY <1>0, <1>7, <2>1 DEF StartExecution, Goto, dbVars, Parity, HoldsLearner
<1>8. ASSUME NEW c \in Calls,
             \/ UpdateLearner(c) \/ SeverLinks(c) \/ DropCaches(c)
             \/ \E t \in ErasedTables : EraseTable(c, t)
      PROVE  Parity'
  <2>1. /\ pc[c] = "waiting" \/ HoldsLearner(c)
        /\ \A d \in Calls \ {c} : pc'[d] = pc[d]
        /\ UNCHANGED <<consent_audit, erasures, began, executed_at>>
    BY <1>0, <1>8 DEF UpdateLearner, SeverLinks, DropCaches, EraseTable, Goto,
                      dbVars, localVars, HoldsLearner
  <2> QED
    BY <1>0, <2>1 DEF Parity, HoldsLearner
<1>9. ASSUME NEW c \in Calls, CommitErasure(c) PROVE Parity'
  <2> DEFINE revocation == [event_type |-> "consent_revoked",
                            occurred_at |-> executed_at[c]]
             erasure == [began |-> began[c], occurred_at |-> executed_at[c],
                         committed |-> clock]
  <2>1. /\ consent_audit' = consent_audit \cup {revocation}
        /\ erasures' = erasures \cup {erasure}
        /\ Return(c)
    BY <1>9 DEF CommitErasure
  <2>2. revocation.event_type # "consent_granted" /\ erasure.occurred_at \in Odd
    BY <1>0, <1>9 DEF CommitErasure, HoldsLearner
  <2> HIDE DEF revocation, erasure
  <2> QED
    BY <1>0, <2>1, <2>2 DEF Return, Goto, Parity, HoldsLearner
<1>10. ASSUME \/ UNCHANGED erasureVars \/ WorkerChecks
              \/ \E t \in Tables : WorkerPersists(t)
       PROVE  Parity'
  BY <1>10 DEF erasureVars, dbVars, callVars, localVars, WorkerChecks,
               WorkerPersists, Parity, HoldsLearner
<1> QED
  BY <1>3, <1>4, <1>5, <1>6, <1>7, <1>8, <1>9, <1>10 DEF ErasureNext, Proceed

(* Whatever a guardian grants while execute_deletion is at work, once an   *)
(* erasure is on record consent stands only on a grant of a request that   *)
(* began after the erasure's own time.                                     *)
THEOREM OnlyLaterGrantsStand == ErasureSpec => []ConsentStandsOnLaterGrant
<1>1. ErasureInit => Parity
  BY CallsAssumption DEF ErasureInit, Parity, Even, HoldsLearner
<1>2. ErasureInv => ErasureTypeOK
  BY DEF ErasureInv
<1>3. ErasureInv /\ Parity => ConsentStandsOnLaterGrant
  <2> SUFFICES ASSUME ErasureInv, Parity, NEW e \in erasures, ConsentStands
               PROVE  \E g \in consent_audit :
                          /\ g.event_type = "consent_granted"
                          /\ g.occurred_at > e.occurred_at
    BY DEF ConsentStandsOnLaterGrant
  <2>1. PICK g \in consent_audit :
            /\ g.event_type = "consent_granted"
            /\ \A r \in consent_audit : r.event_type = "consent_revoked" =>
                   r.occurred_at <= g.occurred_at
    BY DEF ConsentStands
  <2>2. e.occurred_at <= g.occurred_at
    BY <2>1 DEF ErasureInv, Strengthening, RevokedOnRecord
  <2>3. PICK m \in 0..MaxCalls : g.occurred_at = 2 * m
    BY <2>1 DEF Parity, Even
  <2>4. PICK n \in 0..MaxCalls : e.occurred_at = 2 * n + 1
    BY DEF Parity, Odd
  <2>5. g.occurred_at > e.occurred_at
    BY <2>2, <2>3, <2>4, CallsAssumption
  <2> QED
    BY <2>1, <2>5
<1> QED
  BY <1>1, <1>2, <1>3, ParityPreserved, ErasureInvAlways, PTL DEF ErasureSpec

-----------------------------------------------------------------------------
(* That every call returns (CallsReturn) is a matter of fairness and       *)
(* checked by TLC.  What it rests on is proved: no call goes round in a    *)
(* circle.                                                                 *)
Stage(at) ==
    CASE at = "link" -> 7
      [] at = "verify" -> 6
      [] at = "executing" -> 5
      [] at = "waiting" -> 4
      [] at = "erasing" -> 3
      [] at = "severing" -> 2
      [] at \in {"committing", "insert", "answer"} -> 1
      [] OTHER -> 0

(* A call in progress stays where it is, gets to a later stage, or has a   *)
(* table less to go through.                                               *)
CallsAdvance ==
    [][\A c \in Calls : pc[c] # "idle" =>
          \/ pc'[c] = pc[c] /\ todo'[c] = todo[c]
          \/ Stage(pc'[c]) < Stage(pc[c])
          \/ /\ pc[c] = "erasing" /\ pc'[c] = "erasing"
             /\ todo'[c] \subseteq todo[c] /\ todo'[c] # todo[c]]_erasureVars

(* Whatever other calls and the worker do, a request takes at most seven   *)
(* steps and one for each table.                                           *)
THEOREM CallsOnlyAdvance == ErasureSpec => CallsAdvance
<1> DEFINE Advances(c) ==
        \/ pc'[c] = pc[c] /\ todo'[c] = todo[c]
        \/ Stage(pc'[c]) < Stage(pc[c])
        \/ /\ pc[c] = "erasing" /\ pc'[c] = "erasing"
           /\ todo'[c] \subseteq todo[c] /\ todo'[c] # todo[c]
<1>1. ErasureTypeOK /\ [ErasureNext]_erasureVars =>
        [\A c \in Calls : pc[c] # "idle" => Advances(c)]_erasureVars
  <2> SUFFICES ASSUME ErasureTypeOK, ErasureNext,
                      NEW c \in Calls, pc[c] # "idle"
               PROVE  Advances(c)
    OBVIOUS
  <2>0. pc \in [Calls -> PCs] /\ todo \in [Calls -> SUBSET ErasedTables]
    BY DEF ErasureTypeOK
  <2>1. ASSUME NEW d \in Calls, NEW g \in Guardians, NEW o \in Ops, Call(d, g, o)
        PROVE  Advances(c)
    BY <2>0, <2>1 DEF Call, Goto
  <2>2. ASSUME NEW d \in Calls, Return(d), pc[d] # "idle" PROVE Advances(c)
    <3>1. Stage("idle") = 0 /\ Stage(pc[d]) > 0
      BY <2>0, <2>2 DEF Stage, PCs
    <3>2. \A b \in Calls \ {d} : pc'[b] = pc[b] /\ todo'[b] = todo[b]
      BY <2>0, <2>2 DEF Return, Goto
    <3>3. pc'[d] = "idle"
      BY <2>0, <2>2 DEF Return, Goto
    <3> QED
      BY <3>1, <3>2, <3>3
  <2>3. ASSUME NEW d \in Calls, NEW at \in PCs, Goto(d, at),
               Stage(at) < Stage(pc[d]),
               \A b \in Calls \ {d} : todo'[b] = todo[b]
        PROVE  Advances(c)
    BY <2>0, <2>3 DEF Goto
  <2>4. ASSUME NEW d \in Calls, CheckLink(d) PROVE Advances(c)
    <3>1. \/ Return(d)
          \/ \E at \in {"insert", "verify"} : Goto(d, at) /\ UNCHANGED localVars
      BY <2>4 DEF CheckLink, GotoOrReturn
    <3>2. pc[d] = "link" /\ \A at \in {"insert", "verify"} :
                                at \in PCs /\ Stage(at) < Stage("link")
      BY <2>4 DEF CheckLink, Stage, PCs
    <3> QED
      BY <2>2, <2>3, <3>1, <3>2 DEF localVars
  <2>5. ASSUME NEW d \in Calls, Verify(d) PROVE Advances(c)
    <3>1. \/ Return(d)
          \/ \E at \in {"executing", "answer"} : Goto(d, at) /\ UNCHANGED localVars
      BY <2>5 DEF Verify, GotoOrReturn
    <3>2. pc[d] = "verify" /\ \A at \in {"executing", "answer"} :
                                  at \in PCs /\ Stage(at) < Stage("verify")
      BY <2>5 DEF Verify, Stage, PCs
    <3> QED
      BY <2>2, <2>3, <3>1, <3>2 DEF localVars
  <2>6. ASSUME NEW d \in Calls,
               \/ InsertLink(d) \/ InsertConsent(d) \/ Answer(d)
               \/ CommitErasure(d) \/ Fail(d)
        PROVE  Advances(c)
    BY <2>2, <2>6 DEF InsertLink, InsertConsent, Answer, CommitErasure, Fail
  <2>7. ASSUME NEW d \in Calls,
               \/ StartExecution(d) \/ UpdateLearner(d) \/ SeverLinks(d)
               \/ DropCaches(d)
        PROVE  Advances(c)
    <3>1. PICK at \in PCs : Goto(d, at) /\ Stage(at) < Stage(pc[d])
      BY <2>7 DEF StartExecution, UpdateLearner, SeverLinks, DropCaches, Stage,
                  PCs
    <3>2. \A b \in Calls \ {d} : todo'[b] = todo[b]
      BY <2>0, <2>7 DEF StartExecution, UpdateLearner, SeverLinks, DropCaches,
                        localVars
    <3> QED
      BY <2>3, <3>1, <3>2
  <2>8. ASSUME NEW d \in Calls, NEW t \in ErasedTables, EraseTable(d, t)
        PROVE  Advances(c)
    BY <2>0, <2>8 DEF EraseTable
  <2>9. ASSUME WorkerChecks \/ \E t \in Tables : WorkerPersists(t)
        PROVE  Advances(c)
    BY <2>9 DEF WorkerChecks, WorkerPersists, callVars, localVars
  <2> HIDE DEF Advances
  <2> QED
    BY <2>1, <2>4, <2>5, <2>6, <2>7, <2>8, <2>9 DEF ErasureNext, Proceed
<1>2. ErasureInv => ErasureTypeOK
  BY DEF ErasureInv
<1> QED
  BY <1>1, <1>2, ErasureInvAlways, PTL DEF ErasureSpec, CallsAdvance
=============================================================================
