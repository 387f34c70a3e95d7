------------------------------- MODULE Pages --------------------------------
(***************************************************************************)
(* The rows of interaction_sessions and the requests that race for them:   *)
(* forms served at /i/{token} (runtime/web_pages.py, routes of             *)
(* runtime/app.py, wax_runtime.serve_page) and connections to another      *)
(* service (security/oauth.py), which share the table.                     *)
(*                                                                         *)
(* A request reads the row without a lock, decides, and writes the columns *)
(* it changed by primary key (the unit of work of SQLAlchemy): the UPDATE  *)
(* waits for a transaction that wrote the row, and then applies whatever   *)
(* that one committed.  Only the exchange of a code keeps a written row    *)
(* open across an await; the other requests write and commit in one step.  *)
(* The value of a result is the request that recorded it.                  *)
(***************************************************************************)
EXTENDS Integers, FiniteSets, TLC

CONSTANTS
    Forms,          \* sessions serve_page creates
    Grants,         \* sessions create_oauth_session creates
    Requests,       \* HTTP requests, callbacks and calls of cancel_session
    MaxSubmissions, \* max_submissions of a form; a grant has 1
    MaxFaults,      \* bound: requests lost to a crash
    None

ASSUME PagesAssumption ==
    /\ Forms \intersect Grants = {} /\ None \notin Requests
    /\ MaxSubmissions \in Nat \ {0} /\ MaxFaults \in Nat

Sessions == Forms \union Grants

VARIABLES
    sess,       \* the rows
    past,       \* the sessions whose expires_at has passed
    announced,  \* wake events emitted: the session and the result in the payload
    creds,      \* rows of secure_credentials
    req,        \* the requests
    faults

vars == <<sess, past, announced, creds, req, faults>>

States == {"none", "pending", "submitted", "expired", "cancelled", "failed", "completed"}
Blank == [state |-> "none", count |-> 0, result |-> None]
Pending == [Blank EXCEPT !.state = "pending"]
Waiting == [pc |-> "idle", op |-> "get", on |-> None, saw |-> Blank]

Init ==
    /\ sess = [s \in Sessions |-> Blank]
    /\ past = {} /\ announced = {} /\ creds = {}
    /\ req = [r \in Requests |-> Waiting]
    /\ faults = 0

-----------------------------------------------------------------------------
(* Sessions come into being, time passes. *)

Created(s) ==
    /\ sess[s].state = "none"
    /\ sess' = [sess EXCEPT ![s] = Pending]
    /\ UNCHANGED <<past, announced, creds, req, faults>>

\* serve_page commits its page; create_oauth_session is committed by its caller.
ServePage(f) == f \in Forms /\ Created(f)
Authorize(g) == g \in Grants /\ Created(g)

Lapses(s) ==
    /\ sess[s].state # "none" /\ s \notin past
    /\ past' = past \union {s}
    /\ UNCHANGED <<sess, announced, creds, req, faults>>

-----------------------------------------------------------------------------
(* What a request makes of the row it read: the columns it assigns. *)

Late(s, saw) == s \in past /\ saw.state = "pending"
Open(s, saw) == s \notin past /\ saw.state = "pending"

\* get_session_by_token: a page past its time expires when it is looked at.
Looked(s, saw) == IF Late(s, saw) THEN [saw EXCEPT !.state = "expired"] ELSE saw

\* Mutant: the state is not looked at, only the count.
MutantSubmitted(s, saw, r) ==
    IF s \in past THEN Looked(s, saw)
    ELSE [state |-> "submitted", count |-> 1, result |-> r]

Allowed(s) == IF s \in Grants THEN 1 ELSE MaxSubmissions

\* submit_session.
Submitted(s, saw, r) ==
    IF ~Open(s, saw) THEN Looked(s, saw)
    ELSE IF saw.count >= Allowed(s) THEN [saw EXCEPT !.state = "expired"]
    ELSE [state |-> IF saw.count + 1 >= Allowed(s) THEN "submitted" ELSE saw.state,
          count |-> saw.count + 1, result |-> r]

\* cancel_session, whatever the state.
Cancelled(saw) == [saw EXCEPT !.state = "cancelled"]

\* handle_oauth_callback: time first, then the state, then the provider.
Refused(s, saw) == IF s \in past THEN [saw EXCEPT !.state = "expired"] ELSE saw
Consumable(s, saw) == s \notin past /\ saw.count = 0 /\ saw.state = "pending"

\* Only columns that differ from what was read go into the UPDATE.
Update(s, saw, row) ==
    [sess EXCEPT ![s] = [c \in DOMAIN @ |-> IF row[c] = saw[c] THEN @[c] ELSE row[c]]]

\* A request that consumed a grant holds its row until it commits.
Holders(s) == {q \in Requests : req[q].pc = "exchanging" /\ req[q].on = s}

-----------------------------------------------------------------------------
(* Requests. *)

\* The routes of /i/{token} and submit_session ask for no purpose, so a grant is
\* submitted to like a form; a callback looks for grants only.
Ops(s) == {"get", "post", "cancel"} \union (IF s \in Grants THEN {"callback"} ELSE {})

Reads(r, s, op) ==
    /\ req[r].pc = "idle" /\ op \in Ops(s)
    /\ sess[s].state # "none"
    /\ req' = [req EXCEPT ![r] = [pc |-> "read", op |-> op, on |-> s, saw |-> sess[s]]]
    /\ UNCHANGED <<sess, past, announced, creds, faults>>

Ends(r) == req' = [req EXCEPT ![r].pc = "done"]

Writes(r, row) ==
    LET s == req[r].on IN
    /\ row = req[r].saw \/ Holders(s) = {}
    /\ sess' = Update(s, req[r].saw, row)

\* GET /i/{token}
Shows(r) ==
    /\ req[r].pc = "read" /\ req[r].op = "get"
    /\ Writes(r, Looked(req[r].on, req[r].saw))
    /\ Ends(r)
    /\ UNCHANGED <<past, announced, creds, faults>>

\* Mutant: the payload is made of the row before it is submitted.
MutantSubmits(r) ==
    /\ req[r].pc = "read" /\ req[r].op = "post"
    /\ Writes(r, Submitted(req[r].on, req[r].saw, r))
    /\ announced' = announced \union {<<req[r].on, req[r].saw.result>>}
    /\ Ends(r)
    /\ UNCHANGED <<past, creds, faults>>

\* POST /i/{token}: the event is emitted for every session that exists.
Submits(r) ==
    LET row == Submitted(req[r].on, req[r].saw, r) IN
    /\ req[r].pc = "read" /\ req[r].op = "post"
    /\ Writes(r, row)
    /\ announced' = announced \union {<<req[r].on, row.result>>}
    /\ Ends(r)
    /\ UNCHANGED <<past, creds, faults>>

Cancels(r) ==
    /\ req[r].pc = "read" /\ req[r].op = "cancel"
    /\ Writes(r, Cancelled(req[r].saw))
    /\ Ends(r)
    /\ UNCHANGED <<past, announced, creds, faults>>

\* Expired, consumed, or (with the row untouched) of another provider.
Rejects(r) ==
    LET s == req[r].on  saw == req[r].saw IN
    /\ req[r].pc = "read" /\ req[r].op = "callback"
    /\ \/ ~Consumable(s, saw) /\ Writes(r, Refused(s, saw))
       \/ Consumable(s, saw) /\ UNCHANGED sess
    /\ Ends(r)
    /\ UNCHANGED <<past, announced, creds, faults>>

\* The state is consumed and flushed, and the code is on its way.
Consumes(r) ==
    LET s == req[r].on IN
    /\ req[r].pc = "read" /\ req[r].op = "callback"
    /\ Consumable(s, req[r].saw) /\ Holders(s) = {}
    /\ req' = [req EXCEPT ![r].pc = "exchanging"]
    /\ UNCHANGED <<sess, past, announced, creds, faults>>

\* The row the transaction flushed is written on, then committed.
Settles(r, state, result) ==
    sess' = [sess EXCEPT ![req[r].on] = [state |-> state, count |-> 1, result |-> result]]

\* Mutant: a failed exchange marks the session like a successful one.
MutantFails(r) ==
    /\ req[r].pc = "exchanging"
    /\ Settles(r, "completed", sess[req[r].on].result)
    /\ Ends(r)
    /\ UNCHANGED <<past, announced, creds, faults>>

Fails(r) ==
    /\ req[r].pc = "exchanging"
    /\ Settles(r, "failed", sess[req[r].on].result)
    /\ Ends(r)
    /\ UNCHANGED <<past, announced, creds, faults>>

\* What the provider gave as an access token, be it empty, and the refresh token
\* where there is one are stored beside those of earlier connections, and the end
\* is announced.
Connects(r) ==
    LET s == req[r].on IN
    /\ req[r].pc = "exchanging"
    /\ \E types \in {{"access"}, {"access", "refresh"}} :
          creds' = creds \union [grant : {s}, by : {r}, type : types]
    /\ Settles(r, "completed", r)
    /\ announced' = announced \union {<<s, r>>}
    /\ Ends(r)
    /\ UNCHANGED <<past, faults>>

\* The transaction of a request that dies is rolled back.
Dies(r) ==
    /\ req[r].pc \in {"read", "exchanging"} /\ faults < MaxFaults
    /\ faults' = faults + 1
    /\ Ends(r)
    /\ UNCHANGED <<sess, past, announced, creds>>

-----------------------------------------------------------------------------

Request(r) ==
    \/ \E s \in Sessions : \E op \in Ops(s) : Reads(r, s, op)
    \/ Shows(r) \/ Submits(r) \/ Cancels(r) \/ Rejects(r) \/ Consumes(r)
    \/ Fails(r) \/ Connects(r) \/ Dies(r)

Next ==
    \/ \E s \in Sessions : ServePage(s) \/ Authorize(s) \/ Lapses(s)
    \/ \E r \in Requests : Request(r)

Spec == Init /\ [][Next]_vars

\* A row of an access token that callback r stored for g.
Stored(g, r) == \E c \in creds : c.grant = g /\ c.by = r /\ c.type = "access"

-----------------------------------------------------------------------------

\* Rows hold their columns' values, and no row counts more submissions than
\* it allows (interaction_models.py:33-46).
TypeOK ==
    /\ sess \in [Sessions -> [state : States, count : 0..MaxSubmissions,
                              result : Requests \union {None}]]
    /\ past \subseteq Sessions /\ announced \subseteq Sessions \X (Requests \union {None})
    /\ \A c \in creds : c.grant \in Grants /\ c.by \in Requests
    /\ \A r \in Requests : req[r].pc \in {"idle", "read", "exchanging", "done"}

\* Whatever races with it, the result a session holds was announced with the
\* transaction that recorded it: the events of a session have this result in a
\* payload, not only an older one (app.py:515-528, oauth.py:366-386).
ResultIsAnnounced ==
    \A s \in Sessions : sess[s].result # None => <<s, sess[s].result>> \in announced

\* A session that is over keeps its result, unless by a request that read it
\* before: nobody who comes later is recorded, not even when an earlier reader
\* or a cancellation overwrites the state (web_pages.py:106-110, oauth.py:263-265).
LateIsNeverRecorded ==
    [][\A s \in Sessions :
          /\ sess[s].state \notin {"none", "pending"}
          /\ \A r \in Requests : req[r].on = s /\ req[r].pc \in {"read", "exchanging"}
                => req[r].saw.state # "pending"
          => sess'[s].result = sess[s].result]_vars

\* What stands as connected is what a callback stored.  A callback's end is
\* announced exactly if its credential is there; a session that is completed holds
\* the result of such a callback; and a pending one has no credential yet.  Of a
\* credential the row is meant, the token in it may be empty; and a session that
\* was submitted to, before or after, does not stand as completed by it
\* (oauth.py:276-398, app.py:515-528).
ConnectedIsBacked ==
    \A g \in Grants :
        /\ \A r \in Requests : req[r].on = g /\ req[r].op = "callback"
              => (<<g, r>> \in announced <=> Stored(g, r))
        /\ sess[g].state = "completed"
              => \E r \in Requests : sess[g].result = r /\ req[r].op = "callback" /\ Stored(g, r)
        /\ sess[g].state = "pending" => \A c \in creds : c.grant # g

=============================================================================
