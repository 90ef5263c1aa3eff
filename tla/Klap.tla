-------------------------------- MODULE Klap --------------------------------
(***************************************************************************)
(* The KLAP transport, kasa/klap.go, against a device that forgets its     *)
(* sessions (a reboot, an idle timeout), is bound to another account, or   *)
(* is cut off in the middle of an exchange.                                *)
(*                                                                         *)
(* Query, Close and handshake run under klapTransport.mu, so the client is *)
(* one process; its steps are the HTTP posts, the points at which the      *)
(* device and the network can act.  Cryptography is abstract: a key is the *)
(* number of the handshake whose seeds it is derived from, and two hashes  *)
(* are equal exactly when what they hash is.                               *)
(***************************************************************************)
EXTENDS Integers, FiniteSets

CONSTANTS
    Logins,         \* the accounts a device may be bound to
    Candidates,     \* the configured login and the firmware's default ones
    LoginVersion,   \* klapTransport.loginVersion
    SeqBits,        \* the width of the sequence number (32 in the code)
    MaxQueries      \* bound: how many times Query is called

SeqModulus == 2^SeqBits     \* how many sequence numbers there are

ASSUME KlapAssumption ==
    /\ Candidates \subseteq Logins
    /\ LoginVersion \in {1, 2}
    /\ SeqBits \in Nat \ {0}
    /\ SeqModulus \in Nat \ {0}
    /\ MaxQueries \in Nat

VARIABLES
    \* the client
    pc,             \* the post the client is about to make, or "idle"
    attempt,        \* the loop counter of Query
    established, sessionID,
    seeds,          \* the seeds of the handshake in progress
    key, seq,
    outcome,        \* what the last Query returned
    \* the device
    login, version, \* the account it is bound to, the hash it uses
    sessions,       \* the sessions it knows
    \* history
    handshakes,     \* how many handshakes the device has answered
    queries,        \* how many times Query was called
    wire,           \* every (key, sequence number) a request was encrypted with
    disturbed       \* the device or the network interfered with this Query

client  == <<pc, attempt, established, sessionID, seeds, key, seq, outcome>>
device  == <<login, version, sessions>>
history == <<handshakes, queries, wire, disturbed>>
vars    == <<client, device, history>>

NoSession == 0
SessionIDs == 1 .. 2 * MaxQueries
Sequence == 0 .. SeqModulus - 1      \* the uint32 the int32 is sent as

ClientOK ==
    /\ pc \in {"idle", "handshake1", "handshake2", "request"}
    /\ attempt \in {0, 1}
    /\ established \in BOOLEAN
    /\ sessionID \in SessionIDs \cup {NoSession}
    /\ seeds \in SessionIDs \cup {NoSession}
    /\ key \in SessionIDs \cup {NoSession}
    /\ seq \in Sequence
    /\ outcome \in {"none", "ok", "unauthorized", "rejected", "error"}

DeviceOK ==
    /\ login \in Logins
    /\ version \in {1, 2}
    /\ sessions \subseteq [id : SessionIDs, key : SessionIDs, ready : BOOLEAN]

HistoryOK ==
    /\ handshakes \in 0 .. 2 * MaxQueries
    /\ queries \in 0 .. MaxQueries
    /\ wire \subseteq SessionIDs \X Sequence
    /\ disturbed \in BOOLEAN

(* The types of the transport's fields, the device's and the history's.    *)
TypeOK == ClientOK /\ DeviceOK /\ HistoryOK

Init ==
    /\ pc = "idle"
    /\ attempt = 0
    /\ established = FALSE
    /\ sessionID = NoSession
    /\ seeds = NoSession
    /\ key = NoSession
    /\ seq = 0
    /\ outcome = "none"
    /\ login \in Logins
    /\ version \in {1, 2}
    /\ sessions = {}
    /\ handshakes = 0
    /\ queries = 0
    /\ wire = {}
    /\ disturbed = FALSE

Known(id) == \E s \in sessions : s.id = id
Ready(id) == \E s \in sessions : s.id = id /\ s.ready
KeyOf(id) == (CHOOSE s \in sessions : s.id = id).key

(* klapAuthHash over some candidate equals the device's own: the account   *)
(* and the digest its login version calls for both match.                  *)
Accepted == login \in Candidates /\ version = LoginVersion

-----------------------------------------------------------------------------
(* Query.                                                                  *)

(* One pass of the loop: handshake first, unless a session is there.       *)
Enter(n, alive) ==
    /\ attempt' = n
    /\ pc' = IF alive THEN "request" ELSE "handshake1"

(* Query returns.                                                          *)
Return(result) ==
    /\ pc' = "idle"
    /\ outcome' = result
    /\ UNCHANGED attempt

Query ==
    /\ pc = "idle"
    /\ queries < MaxQueries
    /\ queries' = queries + 1
    /\ outcome' = "none"
    /\ disturbed' = FALSE
    /\ Enter(0, established)
    /\ UNCHANGED <<established, sessionID, seeds, key, seq, device, handshakes, wire>>

(* The device answers a first handshake: it starts a session of its own,   *)
(* unless the cookie names one it knows, which it then answers for.        *)
Greet(cookie) ==
    /\ handshakes' = handshakes + 1
    /\ sessions' = IF Known(cookie) THEN sessions
                   ELSE sessions \cup {[id |-> handshakes + 1, key |-> handshakes + 1,
                                        ready |-> FALSE]}

Cookie(cookie) == IF Known(cookie) THEN cookie ELSE handshakes + 1

(* Fault: the cookie of the last session is sent along.                    *)
Handshake1StaleCookie ==
    /\ pc = "handshake1"
    /\ Greet(sessionID)
    /\ IF Accepted
       THEN /\ sessionID' = Cookie(sessionID)
            /\ seeds' = handshakes + 1
            /\ pc' = "handshake2"
            /\ UNCHANGED <<attempt, outcome>>
       ELSE /\ UNCHANGED <<sessionID, seeds>>
            /\ Return("unauthorized")
    /\ UNCHANGED <<established, key, seq, login, version, queries, wire, disturbed>>

(* handshake1 is answered.  The candidates are compared with the device's  *)
(* hash; the cookie and the seeds are of use only if one of them matches.  *)
Handshake1 ==
    /\ pc = "handshake1"
    /\ Greet(NoSession)
    /\ IF Accepted
       THEN /\ sessionID' = Cookie(NoSession)
            /\ seeds' = handshakes + 1
            /\ pc' = "handshake2"
            /\ UNCHANGED <<attempt, outcome>>
       ELSE /\ sessionID' = NoSession
            /\ UNCHANGED seeds
            /\ Return("unauthorized")
    /\ UNCHANGED <<established, key, seq, login, version, queries, wire, disturbed>>

(* handshake1 or its answer is lost, or the answer is malformed.           *)
Handshake1Fails ==
    /\ pc = "handshake1"
    /\ sessionID' = NoSession
    /\ disturbed' = TRUE
    /\ Return("error")
    /\ \/ Greet(NoSession)
       \/ UNCHANGED <<sessions, handshakes>>
    /\ UNCHANGED <<established, seeds, key, seq, login, version, queries, wire>>

MakeReady(id) == {IF s.id = id THEN [s EXCEPT !.ready = TRUE] ELSE s : s \in sessions}

(* handshake2 is accepted: install the keys and a first sequence number.   *)
Handshake2 ==
    /\ pc = "handshake2"
    /\ Known(sessionID)
    /\ sessions' = MakeReady(sessionID)
    /\ established' = TRUE
    /\ key' = seeds
    /\ seq' \in Sequence
    /\ pc' = "request"
    /\ UNCHANGED <<attempt, sessionID, seeds, outcome, login, version, history>>

(* The device has forgotten the session since handshake1, or the post or   *)
(* its answer is lost.                                                     *)
Handshake2Fails ==
    /\ pc = "handshake2"
    /\ \/ ~Known(sessionID) /\ UNCHANGED <<sessions, disturbed>>
       \/ sessions' \in {sessions, MakeReady(sessionID)} /\ disturbed' = TRUE
    /\ Return("error")
    /\ UNCHANGED <<established, sessionID, seeds, key, seq, login, version, handshakes,
                   queries, wire>>

(* Fault: the counter is wider than the number that is sent.               *)
NextSeqUnwrapped == seq + 1

(* t.seq++ on an int32, which wraps.                                       *)
NextSeq == (seq + 1) % SeqModulus

(* Every request advances the sequence number, answered or not.            *)
Send ==
    /\ pc = "request"
    /\ seq' = NextSeq
    /\ wire' = wire \cup {<<key, NextSeq>>}

(* The device knows the session: its reply decrypts if the keys agree.     *)
RequestAnswered ==
    /\ Send
    /\ Ready(sessionID)
    /\ Return(IF KeyOf(sessionID) = key THEN "ok" ELSE "error")
    /\ UNCHANGED <<established, sessionID, seeds, key, device, handshakes, queries, disturbed>>

(* Fault: a 403 is tried again with the session that was refused.          *)
RequestForbiddenKept ==
    /\ Send
    /\ ~Ready(sessionID)
    /\ IF attempt = 0
       THEN Enter(1, TRUE) /\ UNCHANGED outcome
       ELSE Return("rejected")
    /\ UNCHANGED <<established, sessionID, seeds, key, device, handshakes, queries, disturbed>>

(* It does not: 403.  The loop goes round once more, with a new session.   *)
RequestForbidden ==
    /\ Send
    /\ ~Ready(sessionID)
    /\ established' = FALSE
    /\ IF attempt = 0
       THEN Enter(1, FALSE) /\ UNCHANGED outcome
       ELSE Return("rejected")
    /\ UNCHANGED <<sessionID, seeds, key, device, handshakes, queries, disturbed>>

(* Fault: the sequence number advances only when the device has answered.  *)
RequestLostUncounted ==
    /\ pc = "request"
    /\ wire' = wire \cup {<<key, NextSeq>>}
    /\ disturbed' = TRUE
    /\ Return("error")
    /\ UNCHANGED <<established, sessionID, seeds, key, seq, device, handshakes, queries>>

(* The request or its answer is lost, or the status is another one.        *)
RequestLost ==
    /\ Send
    /\ disturbed' = TRUE
    /\ Return("error")
    /\ UNCHANGED <<established, sessionID, seeds, key, device, handshakes, queries>>

(* Close forgets the session.  Device.Read closes after an error, but a    *)
(* strip that lost the meter of one outlet goes on with the next.          *)
Close ==
    /\ pc = "idle"
    /\ established' = FALSE
    /\ sessionID' = NoSession
    /\ UNCHANGED <<pc, attempt, seeds, key, seq, outcome, device, history>>

-----------------------------------------------------------------------------
(* The device on its own.                                                  *)

(* A reboot or the idle timeout.                                           *)
Forget ==
    /\ sessions # {}
    /\ sessions' = {}
    /\ disturbed' = TRUE
    /\ UNCHANGED <<client, login, version, handshakes, queries, wire>>

(* It is bound to another account, which ends its sessions too.            *)
Reprovision ==
    /\ login' \in Logins \ {login}
    /\ sessions' = {}
    /\ disturbed' = TRUE
    /\ UNCHANGED <<client, version, handshakes, queries, wire>>

Next ==
    \/ Query \/ Close
    \/ Handshake1 \/ Handshake1Fails
    \/ Handshake2 \/ Handshake2Fails
    \/ RequestAnswered \/ RequestForbidden \/ RequestLost
    \/ Forget \/ Reprovision

Spec == Init /\ [][Next]_vars

-----------------------------------------------------------------------------
(* While the device knows the client's session the two hold the same keys, *)
(* whatever exchanges were cut short before (handshake: "a stale cookie    *)
(* must not be sent with a new handshake").                                *)
KeysAgree ==
    established /\ Known(sessionID) => Ready(sessionID) /\ KeyOf(sessionID) = key

(* No two requests are encrypted under the same key and IV, retries and    *)
(* lost requests included (klapDeriveSession: "every message encrypts      *)
(* under a distinct IV").                                                  *)
NonceFresh == [][pc = "request" /\ pc' # "request" => wire' # wire]_vars

(* A Query whose device and network left it alone succeeds, also when its  *)
(* session was forgotten before it began; it reports a rejected login only *)
(* when no candidate fits the device (Query: "otherwise every scrape after *)
(* a device reboots fails until the exporter is restarted").               *)
FailureExplained ==
    [][pc # "idle" /\ pc' = "idle" =>
         /\ outcome' \in {"error", "rejected"} => disturbed'
         /\ outcome' = "unauthorized" => ~Accepted]_vars
=============================================================================
