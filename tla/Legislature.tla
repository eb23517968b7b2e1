---------------------------- MODULE Legislature ----------------------------
(***************************************************************************)
(* LegislatureAgent.refresh_source (app/api/judiciary/agent.py): the rules *)
(* of one policy document, ingested by several agents on sessions of their *)
(* own, while the document on disk may be replaced.  Every statement is an *)
(* await of its own and every rule a transaction of its own; the hash of   *)
(* the document is recorded last.  An agent may stop at any await.         *)
(*                                                                         *)
(* Chunking, embedding and the vector store keep nothing: the text of the  *)
(* rule at a place of a document is given by Text.                         *)
(***************************************************************************)
EXTENDS Naturals

CONSTANTS
    Agents,
    Documents,  \* contents the file may have
    Places,     \* number of rules extracted (the first five chunks at most)
    Dates,      \* effective dates a refresh may be given
    Text        \* Text[d][i]: the rule's text at place i of document d

ASSUME PlacesAssumption == Places \in 1 .. 5

VARIABLES
    file,       \* the document on disk
    ruleRows,   \* constitutional_rules: immutable, never deleted
    sourceHash, \* legislature_source_hashes: {} or {document hashed}
    agent,      \* where a refresh stands
    hashed,     \* the document whose hash it took
    parsed,     \* the document it read last: for its hash, then its text
    dated,      \* the effective_date it was given
    ruleAt      \* the place of the rule it persists

legislatureVars ==
    <<file, ruleRows, sourceHash, agent, hashed, parsed, dated, ruleAt>>

(* rule_id is the place; immutable_hash covers all three fields.           *)
Texts == {Text[d][i] : d \in Documents, i \in 1 .. Places}
Rule == [rule_id : 1 .. Places, rule_text : Texts, effective_date : Dates]

LegislatureTypeOK ==
    /\ file \in Documents
    /\ ruleRows \subseteq Rule
    /\ sourceHash \subseteq Documents
    /\ agent \in [Agents -> {"idle", "hashed", "selecting", "inserting",
                             "done", "failed"}]
    /\ hashed \in [Agents -> Documents]
    /\ parsed \in [Agents -> Documents]
    /\ dated \in [Agents -> Dates]
    /\ ruleAt \in [Agents -> 1 .. Places + 1]

LegislatureInit ==
    /\ file \in Documents
    /\ ruleRows = {}
    /\ sourceHash = {}
    /\ agent = [a \in Agents |-> "idle"]
    /\ hashed = [a \in Agents |-> file]
    /\ parsed = [a \in Agents |-> file]
    /\ dated \in [Agents -> Dates]
    /\ ruleAt = [a \in Agents |-> 1]

-----------------------------------------------------------------------------
RuleOf(d, i, date) ==
    [rule_id |-> i, rule_text |-> Text[d][i], effective_date |-> date]

(* uq of (rule_id, effective_date), and of immutable_hash.                 *)
Conflicts(r) ==
    \E row \in ruleRows : /\ row.rule_id = r.rule_id
                          /\ row.effective_date = r.effective_date

ReplaceFile(d) ==
    /\ file' = d
    /\ UNCHANGED <<ruleRows, sourceHash, agent, hashed, parsed, dated, ruleAt>>

(* Up to the SELECT of _is_unchanged: the hash of the file.                *)
HashFile(a) ==
    /\ agent[a] = "idle"
    /\ hashed' = [hashed EXCEPT ![a] = file]
    /\ parsed' = [parsed EXCEPT ![a] = file]
    /\ agent' = [agent EXCEPT ![a] = "hashed"]
    /\ UNCHANGED <<file, ruleRows, sourceHash, dated, ruleAt>>

(* The SELECT answers; an unknown hash, and the file is read again.        *)
ReadFile(a) ==
    /\ agent[a] = "hashed"
    /\ IF hashed[a] \in sourceHash
       THEN /\ agent' = [agent EXCEPT ![a] = "done"]
            /\ UNCHANGED parsed
       ELSE /\ agent' = [agent EXCEPT ![a] = "selecting"]
            /\ parsed' = [parsed EXCEPT ![a] = file]
    /\ UNCHANGED <<file, ruleRows, sourceHash, hashed, dated, ruleAt>>

Persisting(a) == RuleOf(parsed[a], ruleAt[a], dated[a])

(* _persist_rule: a rule with this hash is skipped.                        *)
SelectRule(a) ==
    /\ agent[a] = "selecting" /\ ruleAt[a] <= Places
    /\ IF Persisting(a) \in ruleRows
       THEN /\ ruleAt' = [ruleAt EXCEPT ![a] = @ + 1]
            /\ UNCHANGED agent
       ELSE /\ agent' = [agent EXCEPT ![a] = "inserting"]
            /\ UNCHANGED ruleAt
    /\ UNCHANGED <<file, ruleRows, sourceHash, hashed, parsed, dated>>

(* Seeded fault: ON CONFLICT DO NOTHING.                                   *)
InsertOrIgnore(a) ==
    /\ agent[a] = "inserting"
    /\ ruleRows' = IF Conflicts(Persisting(a)) THEN ruleRows
                   ELSE ruleRows \cup {Persisting(a)}
    /\ ruleAt' = [ruleAt EXCEPT ![a] = @ + 1]
    /\ agent' = [agent EXCEPT ![a] = "selecting"]
    /\ UNCHANGED <<file, sourceHash, hashed, parsed, dated>>

(* The INSERT commits, or a unique key raises out of refresh_source: what  *)
(* was persisted so far stays.                                             *)
InsertRule(a) ==
    /\ agent[a] = "inserting"
    /\ IF Conflicts(Persisting(a))
       THEN /\ agent' = [agent EXCEPT ![a] = "failed"]
            /\ UNCHANGED <<ruleRows, ruleAt>>
       ELSE /\ ruleRows' = ruleRows \cup {Persisting(a)}
            /\ ruleAt' = [ruleAt EXCEPT ![a] = @ + 1]
            /\ agent' = [agent EXCEPT ![a] = "selecting"]
    /\ UNCHANGED <<file, sourceHash, hashed, parsed, dated>>

(* _record_source_hash: one row per source.                                *)
RecordHash(a) ==
    /\ agent[a] = "selecting" /\ ruleAt[a] > Places
    /\ sourceHash' = {hashed[a]}
    /\ agent' = [agent EXCEPT ![a] = "done"]
    /\ UNCHANGED <<file, ruleRows, hashed, parsed, dated, ruleAt>>

(* The process dies, or a statement fails.                                 *)
AgentStops(a) ==
    /\ agent[a] \in {"hashed", "selecting", "inserting"}
    /\ agent' = [agent EXCEPT ![a] = "failed"]
    /\ UNCHANGED <<file, ruleRows, sourceHash, hashed, parsed, dated, ruleAt>>

LegislatureNext ==
    \/ \E d \in Documents : ReplaceFile(d)
    \/ \E a \in Agents : \/ HashFile(a) \/ ReadFile(a) \/ SelectRule(a)
                         \/ InsertRule(a) \/ RecordHash(a) \/ AgentStops(a)

LegislatureSpec == LegislatureInit /\ [][LegislatureNext]_legislatureVars

-----------------------------------------------------------------------------
Ingested(d) ==
    \E date \in Dates :
        \A i \in 1 .. Places : RuleOf(d, i, date) \in ruleRows

(* A refresh that hashed one document and, after an await, read another.   *)
Torn(d) == \E a \in Agents : hashed[a] = d /\ parsed[a] # d

(* A document whose hash is recorded, and which will therefore be skipped, *)
(* has all its rules in the table with one effective date, however many    *)
(* refreshes overlapped, failed half-way or were given the same date,      *)
(* unless the file was replaced between a refresh's hash and its reading.  *)
HashMeansRules == \A d \in sourceHash : Ingested(d) \/ Torn(d)
=============================================================================
