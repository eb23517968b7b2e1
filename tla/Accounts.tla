------------------------------ MODULE Accounts ------------------------------
(***************************************************************************)
(* Guardians' accounts and everybody's tokens (app/api/routers/auth.py):   *)
(* registration, both ways to log in, learner sessions, the check of a     *)
(* token that every other endpoint begins with, and the two logouts.       *)
(*                                                                         *)
(* Calls overlap at their awaits: the scan of parent_accounts, the commit, *)
(* the GET and the SETEX of Redis, which is external and may fail; it is   *)
(* taken to keep a key for its ttl, although docker-compose.yml runs it    *)
(* with allkeys-lru, which drops keys when memory is short. Time passes in *)
(* ticks, several to a second, because a token expires at a full second    *)
(* (PyJWT drops the fraction) while calls happen at any time.  A token is  *)
(* named after its jti.                                                    *)
(***************************************************************************)
EXTENDS Naturals

CONSTANTS
    AuthCalls,
    Emails,
    Tokens,     \* every jti: bounds how many tokens are ever issued
    Second,     \* ticks in a second
    Lifetime,   \* JWT_EXPIRY_HOURS, in ticks
    LastTick    \* bound of the model: no tick after this one

ASSUME ClockAssumption ==
    /\ Second \in Nat \ {0} /\ Lifetime \in Nat /\ LastTick \in Nat
    /\ Lifetime >= Second

VARIABLES
    tick,
    accounts,       \* rows of parent_accounts
    issued,         \* tokens given out
    role, expiry,   \* claims of an issued token
    blacklist,      \* tick at which the key of a token in Redis expires
    invalidated,    \* tokens whose logout was answered "invalidated"
    call,           \* where a call stands
    subject,        \* the email a call is about, in a set, or none
    bearer          \* the token a call came with, in a set, or none

accountsVars == <<tick, accounts, issued, role, expiry, blacklist,
                  invalidated, call, subject, bearer>>
tokenVars == <<issued, role, expiry>>

Roles == {"guardian", "learner"}
(* An encrypted email has a random nonce, so the UNIQUE key of the column  *)
(* keeps no two rows apart: a row is named after the call that inserted    *)
(* it, whose password it holds.                                            *)
Account == [parent : AuthCalls, email : Emails]

AccountsTypeOK ==
    /\ tick \in 0 .. LastTick
    /\ accounts \subseteq Account
    /\ issued \subseteq Tokens
    /\ role \in [Tokens -> Roles]
    /\ expiry \in [Tokens -> Nat]
    /\ blacklist \in [Tokens -> Nat]
    /\ invalidated \subseteq issued
    /\ call \in [AuthCalls -> {"new", "registering", "inserting", "checking",
                           "passed", "done"}]
    /\ subject \in [AuthCalls -> SUBSET Emails]
    /\ bearer \in [AuthCalls -> SUBSET Tokens]

AccountsInit ==
    /\ tick = 0
    /\ accounts = {}
    /\ issued = {}
    /\ role = [t \in Tokens |-> "learner"]
    /\ expiry = [t \in Tokens |-> 0]
    /\ blacklist = [t \in Tokens |-> 0]
    /\ invalidated = {}
    /\ call = [c \in AuthCalls |-> "new"]
    /\ subject = [c \in AuthCalls |-> {}]
    /\ bearer = [c \in AuthCalls |-> {}]

TimePasses ==
    /\ tick < LastTick
    /\ tick' = tick + 1
    /\ UNCHANGED <<accounts, tokenVars, blacklist, invalidated, call, subject,
                   bearer>>

-----------------------------------------------------------------------------
Advance(c, next) == call' = [call EXCEPT ![c] = next]

(* _create_token *)
CreateToken(r) ==
    \E t \in Tokens \ issued :
        /\ issued' = issued \cup {t}
        /\ role' = [role EXCEPT ![t] = r]
        /\ expiry' = [expiry EXCEPT
                        ![t] = ((tick + Lifetime) \div Second) * Second]

(* register_guardian *)
Register(c) ==
    /\ call[c] = "new"
    /\ \E e \in Emails : subject' = [subject EXCEPT ![c] = {e}]
    /\ Advance(c, "registering")
    /\ UNCHANGED <<tick, accounts, tokenVars, blacklist, invalidated, bearer>>

(* _find_parent_by_email: any row with the email, for nothing orders them. *)
Found(e) == {a \in accounts : a.email = e}

(* A duplicate is refused (409) if its row is committed by now.            *)
CheckDuplicate(c) ==
    /\ call[c] = "registering"
    /\ Advance(c, IF \A e \in subject[c] : Found(e) = {} THEN "inserting"
                                                      ELSE "done")
    /\ UNCHANGED <<tick, accounts, tokenVars, blacklist, invalidated,
                   subject, bearer>>

InsertAccount(c) ==
    /\ call[c] = "inserting"
    /\ accounts' = accounts \cup
                      {[parent |-> c, email |-> e] : e \in subject[c]}
    /\ CreateToken("guardian")
    /\ Advance(c, "done")
    /\ UNCHANGED <<tick, blacklist, invalidated, subject, bearer>>

(* guardian_login with a password (of the account of another call): it is  *)
(* compared with whichever row of the email comes first.                   *)
LoginByPassword(c) ==
    /\ call[c] = "new"
    /\ \E e \in Emails, owner \in AuthCalls :
          \E parent \in Found(e) :
             IF parent.parent = owner
             THEN CreateToken("guardian")
             ELSE UNCHANGED tokenVars
    /\ Advance(c, "done")
    /\ UNCHANGED <<tick, accounts, blacklist, invalidated, subject, bearer>>

(* Without one, _verify_guardian wants an account that is linked to the    *)
(* learner; whether it is belongs to GuardianErasure.                      *)
LoginByLearner(c) ==
    /\ call[c] = "new"
    /\ \E e \in Emails, linked \in BOOLEAN :
          IF linked /\ Found(e) # {}
          THEN CreateToken("guardian")
          ELSE UNCHANGED tokenVars
    /\ Advance(c, "done")
    /\ UNCHANGED <<tick, accounts, blacklist, invalidated, subject, bearer>>

(* create_learner_session asks for nothing.                                *)
LearnerSession(c) ==
    /\ call[c] = "new"
    /\ CreateToken("learner")
    /\ Advance(c, "done")
    /\ UNCHANGED <<tick, accounts, blacklist, invalidated, subject, bearer>>

(* get_current_user up to the GET: _decode_token refuses an expired token. *)
Authenticate(c) ==
    /\ call[c] = "new"
    /\ \E t \in issued :
          /\ bearer' = [bearer EXCEPT ![c] = {t}]
          /\ Advance(c, IF expiry[t] > tick THEN "checking" ELSE "done")
    /\ UNCHANGED <<tick, accounts, tokenVars, blacklist, invalidated, subject>>

Blacklisted(t) == blacklist[t] > tick

(* The GET answers.                                                        *)
CheckBlacklist(c) ==
    /\ call[c] = "checking"
    /\ Advance(c, IF \E t \in bearer[c] : Blacklisted(t) THEN "done"
                                                        ELSE "passed")
    /\ UNCHANGED <<tick, accounts, tokenVars, blacklist, invalidated,
                   subject, bearer>>

(* Redis does not answer: the failure is logged and the token passes.      *)
CheckFails(c) ==
    /\ call[c] = "checking"
    /\ Advance(c, "passed")
    /\ UNCHANGED <<tick, accounts, tokenVars, blacklist, invalidated,
                   subject, bearer>>

(* Any endpoint but the logouts; a logout by the other role (403), or one  *)
(* whose SETEX fails, which answers success without "invalidated".         *)
Serve(c) ==
    /\ call[c] = "passed"
    /\ Advance(c, "done")
    /\ UNCHANGED <<tick, accounts, tokenVars, blacklist, invalidated,
                   subject, bearer>>

(* Seeded fault: the key is kept a second less than the token lives.       *)
RemainingShort(t) == ((expiry[t] - tick) \div Second) * Second - Second

(* ttl = max(1, int(token_exp - now)), in ticks.                           *)
Remaining(t) ==
    IF tick + Second > expiry[t] THEN Second
    ELSE ((expiry[t] - tick) \div Second) * Second

(* guardian_logout and learner_logout: SETEX answers, in the tick in which *)
(* the ttl was computed (a later one would keep the key for longer).       *)
Logout(c) ==
    /\ call[c] = "passed"
    /\ \E t \in bearer[c] :
          /\ blacklist' = [blacklist EXCEPT ![t] = tick + Remaining(t)]
          /\ invalidated' = invalidated \cup {t}
    /\ Advance(c, "done")
    /\ UNCHANGED <<tick, accounts, tokenVars, subject, bearer>>

AccountsNext ==
    \/ TimePasses
    \/ \E c \in AuthCalls :
          \/ Register(c) \/ CheckDuplicate(c) \/ InsertAccount(c)
          \/ LoginByPassword(c) \/ LoginByLearner(c) \/ LearnerSession(c)
          \/ Authenticate(c) \/ CheckBlacklist(c) \/ CheckFails(c)
          \/ Serve(c) \/ Logout(c)

AccountsSpec == AccountsInit /\ [][AccountsNext]_accountsVars

-----------------------------------------------------------------------------
(* A token whose logout was answered "invalidated" is refused by every     *)
(* check that Redis answers, but for less than the last second of its      *)
(* life: the ttl drops the fraction of a second that the token keeps       *)
(* (guardian_logout, learner_logout, get_current_user).  This is of the    *)
(* time a key lives: that Redis does not evict it earlier is assumed.      *)
LoggedOutStaysOut ==
    \A t \in invalidated : Blacklisted(t) \/ tick + Second > expiry[t]
=============================================================================
