----------------------------- MODULE PagesProofs -----------------------------
(***************************************************************************)
(* Proofs about Pages: whatever requests race for a session, its result    *)
(* was announced, a late request is not recorded, and what stands as       *)
(* connected is what a callback stored.  All three rest on how a request   *)
(* writes: only the columns that differ from what it read.                 *)
(***************************************************************************)
EXTENDS Pages, TLAPS

Row == [state : States, count : 0..MaxSubmissions, result : Requests \union {None}]
Req == [pc : {"idle", "read", "exchanging", "done"},
        op : {"get", "cancel", "post", "callback"},
        on : Sessions \union {None}, saw : Row]
Cred == [grant : Grants, by : Requests, type : {"access", "refresh"}]

Types ==
    /\ sess \in [Sessions -> Row]
    /\ req \in [Requests -> Req]
    /\ creds \subseteq Cred

Active(r) == req[r].pc \in {"read", "exchanging"}

\* A request in progress has a session its operation is made for, and the
\* exchange of a code began with a pending row.
InHand ==
    \A r \in Requests :
        /\ Active(r) => req[r].on \in Sessions /\ req[r].op \in Ops(req[r].on)
        /\ req[r].pc = "exchanging" => req[r].op = "callback" /\ req[r].saw.state = "pending"

\* What a request read was announced, and what it is to announce or to store is
\* neither announced nor stored before it has ended.
Heard ==
    /\ \A r \in Requests : Active(r) /\ req[r].saw.result # None
          => <<req[r].on, req[r].saw.result>> \in announced
    /\ \A s \in Sessions, r \in Requests : <<s, r>> \in announced => req[r].pc = "done"
    /\ \A c \in creds : req[c.by].pc = "done"

\* ConnectedIsBacked, which is not inductive: a session that is not yet there
\* must have no credential either.
Backed ==
    \A g \in Grants :
        /\ \A r \in Requests : req[r].on = g /\ req[r].op = "callback"
              => (<<g, r>> \in announced <=> Stored(g, r))
        /\ sess[g].state = "completed"
              => \E r \in Requests : /\ sess[g].result = r /\ req[r].on = g
                                      /\ req[r].op = "callback" /\ Stored(g, r)
        /\ sess[g].state \in {"none", "pending"} => \A c \in creds : c.grant # g

IInv == Types /\ InHand /\ ResultIsAnnounced /\ Heard /\ Backed

-----------------------------------------------------------------------------
(* What a request makes of the row it read.                                *)

\* Over and done with, for a form or a grant.
Closed == {"expired", "submitted", "cancelled"}

\* A row that request r may write: it opens nothing, and records at most r.
Modest(row, saw, r) ==
    /\ row \in Row
    /\ row.state = saw.state \/ row.state \in Closed
    /\ row.result = saw.result \/ row.result = r

\* What is recorded of a grant closes it.
Closing(row, saw) == row.result # saw.result => row.state \in Closed /\ saw.state = "pending"

LEMMA LookedIsModest ==
    ASSUME NEW s, NEW saw \in Row, NEW r \in Requests
    PROVE  Modest(Looked(s, saw), saw, r) /\ Looked(s, saw).result = saw.result
  BY DEF Modest, Looked, Row, States, Closed

LEMMA CancelledIsModest ==
    ASSUME NEW saw \in Row, NEW r \in Requests
    PROVE  Modest(Cancelled(saw), saw, r) /\ Cancelled(saw).result = saw.result
  BY DEF Modest, Cancelled, Row, States, Closed

LEMMA RefusedIsModest ==
    ASSUME NEW s, NEW saw \in Row, NEW r \in Requests
    PROVE  Modest(Refused(s, saw), saw, r) /\ Refused(s, saw).result = saw.result
  BY DEF Modest, Refused, Row, States, Closed

LEMMA SubmittedIsModest ==
    ASSUME NEW s, NEW saw \in Row, NEW r \in Requests
    PROVE  /\ Modest(Submitted(s, saw, r), saw, r)
           /\ saw.state # "pending" => Submitted(s, saw, r).result = saw.result
           /\ s \in Grants => Closing(Submitted(s, saw, r), saw)
<1> DEFINE row == Submitted(s, saw, r)
<1>1. CASE ~Open(s, saw)
  <2>1. row = Looked(s, saw)
    BY <1>1 DEF Submitted
  <2> QED BY <2>1, LookedIsModest DEF Closing
<1>2. CASE Open(s, saw) /\ saw.count >= Allowed(s)
  <2>1. row = [saw EXCEPT !.state = "expired"]
    BY <1>2 DEF Submitted
  <2> QED BY <2>1 DEF Modest, Closing, Row, States, Closed
<1>3. CASE Open(s, saw) /\ ~(saw.count >= Allowed(s))
  <2>1. /\ saw.state = "pending"
        /\ saw.count \in Nat /\ saw.count + 1 \in 0..MaxSubmissions
        /\ s \in Grants => saw.count + 1 >= Allowed(s)
    BY <1>3, PagesAssumption DEF Open, Row, Allowed
  <2>2. row = [state |-> IF saw.count + 1 >= Allowed(s) THEN "submitted" ELSE saw.state,
               count |-> saw.count + 1, result |-> r]
    BY <1>3 DEF Submitted
  <2>3. /\ row.state \in {"submitted", saw.state} /\ row.count = saw.count + 1 /\ row.result = r
        /\ s \in Grants => row.state = "submitted"
    BY <2>1, <2>2
  <2>4. row \in Row
    BY <2>1, <2>2 DEF Row, States
  <2> HIDE DEF row
  <2>5. Modest(row, saw, r)
    BY <2>3, <2>4 DEF Modest, Closed
  <2>6. s \in Grants => Closing(row, saw)
    BY <2>1, <2>3 DEF Closing, Closed
  <2> QED BY <2>5, <2>6, <2>1 DEF row
<1> QED BY <1>1, <1>2, <1>3

\* An UPDATE changes one row, and each column either not at all or to the
\* value the request assigned.
LEMMA Written ==
    ASSUME Types, NEW r \in Requests, req[r].on \in Sessions, NEW row \in Row, Writes(r, row)
    PROVE  LET s == req[r].on  saw == req[r].saw IN
           /\ sess' \in [Sessions -> Row]
           /\ \A q \in Sessions \ {s} : sess'[q] = sess[q]
           /\ sess'[s].state = IF row.state = saw.state THEN sess[s].state ELSE row.state
           /\ sess'[s].result = IF row.result = saw.result THEN sess[s].result ELSE row.result
<1> DEFINE s == req[r].on
           saw == req[r].saw
           new == [c \in DOMAIN sess[s] |-> IF row[c] = saw[c] THEN sess[s][c] ELSE row[c]]
<1>1. saw \in Row /\ sess[s] \in Row
  BY DEF Types, Req
<1>2. DOMAIN sess[s] = {"state", "count", "result"}
  BY <1>1 DEF Row
<1>3. sess' = [sess EXCEPT ![s] = new]
  BY DEF Writes, Update
<1>4. /\ new.state = IF row.state = saw.state THEN sess[s].state ELSE row.state
      /\ new.count = IF row.count = saw.count THEN sess[s].count ELSE row.count
      /\ new.result = IF row.result = saw.result THEN sess[s].result ELSE row.result
  BY <1>2
<1>5. new = [state |-> new.state, count |-> new.count, result |-> new.result]
  BY <1>2
<1>6. /\ new.state \in States /\ new.count \in 0..MaxSubmissions
      /\ new.result \in Requests \union {None}
  BY <1>1, <1>4 DEF Row
<1>7. new \in Row
  <2> HIDE DEF new
  <2> QED BY <1>5, <1>6 DEF Row
<1> HIDE DEF new
<1>8. sess' \in [Sessions -> Row] /\ sess'[s] = new /\ \A q \in Sessions \ {s} : sess'[q] = sess[q]
  BY <1>3, <1>7 DEF Types
<1> QED BY <1>4, <1>8

-----------------------------------------------------------------------------
(* Steps.                                                                  *)

\* A request that writes a modest row and ends.
LEMMA Answers ==
    ASSUME IInv, NEW r \in Requests, Active(r), NEW row, Modest(row, req[r].saw, r),
           Writes(r, row), Ends(r), UNCHANGED creds,
           announced \subseteq announced',
           \A a \in announced' \ announced : a = <<req[r].on, row.result>> /\ req[r].op = "post",
           row.result # req[r].saw.result => <<req[r].on, row.result>> \in announced',
           req[r].on \in Grants => Closing(row, req[r].saw)
    PROVE  IInv'
<1> DEFINE s == req[r].on
<1>1. /\ s \in Sessions /\ row \in Row
      /\ Types /\ InHand /\ ResultIsAnnounced /\ Heard /\ Backed
      /\ None \notin Requests
  BY PagesAssumption DEF IInv, InHand, Modest
<1>2. /\ sess' \in [Sessions -> Row]
      /\ \A q \in Sessions \ {s} : sess'[q] = sess[q]
      /\ sess'[s].state = IF row.state = req[r].saw.state THEN sess[s].state ELSE row.state
      /\ sess'[s].result = IF row.result = req[r].saw.result THEN sess[s].result ELSE row.result
  BY <1>1, Written
<1>3. Types'
  BY <1>1, <1>2 DEF Types, Ends, Req
<1>4. InHand'
  BY <1>1 DEF InHand, Ends, Active, Types, Req
<1>5. ResultIsAnnounced'
  BY <1>1, <1>2 DEF ResultIsAnnounced
<1>6. sess'[s].state = sess[s].state \/ sess'[s].state \in Closed
  BY <1>2 DEF Modest
<1>7. /\ req'[r].pc = "done" /\ req[r].pc # "done"
      /\ \A q \in Requests \ {r} : req'[q] = req[q]
      /\ \A q \in Requests : req'[q].on = req[q].on /\ req'[q].op = req[q].op
                             /\ req'[q].saw = req[q].saw
  BY <1>1 DEF Ends, Types, Req, Active
<1>8. \A q \in Sessions, v \in Requests : <<q, v>> \in announced' =>
        \/ <<q, v>> \in announced
        \/ q = s /\ v = r /\ req[r].op = "post"
  <2> SUFFICES ASSUME NEW q \in Sessions, NEW v \in Requests,
                      <<q, v>> \in announced' \ announced
               PROVE  q = s /\ v = r /\ req[r].op = "post"
    OBVIOUS
  <2>1. q = s /\ v = row.result /\ req[r].op = "post"
    OBVIOUS
  <2>2. v # req[r].saw.result
    BY <1>1, <2>1 DEF Heard
  <2> QED BY <2>1, <2>2 DEF Modest
<1>9. Heard'
  <2>1. \A c \in creds : req'[c.by].pc = "done"
    BY <1>1, <1>7 DEF Heard, Types, Cred
  <2>2. \A q \in Requests : Active(q)' => Active(q) /\ req'[q] = req[q]
    BY <1>7 DEF Active
  <2> QED BY <1>1, <1>7, <1>8, <2>1, <2>2 DEF Heard
<1>10. Backed'
  <2> SUFFICES ASSUME NEW g \in Grants
               PROVE  /\ \A q \in Requests : req'[q].on = g /\ req'[q].op = "callback"
                            => (<<g, q>> \in announced' <=> Stored(g, q))
                      /\ sess'[g].state = "completed"
                            => \E q \in Requests : /\ sess'[g].result = q /\ req'[q].on = g
                                                    /\ req'[q].op = "callback" /\ Stored(g, q)
                      /\ sess'[g].state \in {"none", "pending"} => \A c \in creds : c.grant # g
    BY DEF Backed, Stored
  <2>1. sess'[g].state = sess[g].state \/ sess'[g].state \in Closed
    BY <1>1, <1>2, <1>6 DEF Sessions
  <2>2. \A q \in Requests : req[q].op = "callback" /\ <<g, q>> \in announced'
          => <<g, q>> \in announced
    BY <1>8 DEF Sessions
  <2>3. sess'[g].state = "completed" => sess'[g].result = sess[g].result
    <3>1. CASE g = s
      BY <1>2, <3>1 DEF Closing, Closed
    <3>2. CASE g # s
      BY <1>2, <3>2 DEF Sessions
    <3> QED BY <3>1, <3>2
  <2> QED BY <1>1, <1>7, <2>1, <2>2, <2>3 DEF Backed, Closed
<1> QED BY <1>3, <1>4, <1>5, <1>9, <1>10 DEF IInv

\* An exchange ends: its row is settled as failed or, with credentials and an
\* announcement, as completed.
LEMMA Exchanged ==
    ASSUME IInv, NEW r \in Requests, Fails(r) \/ Connects(r)
    PROVE  IInv'
<1> DEFINE s == req[r].on
<1>1. /\ s \in Grants /\ s \in Sessions /\ Types /\ InHand /\ ResultIsAnnounced
      /\ Heard /\ Backed
      /\ sess[s] \in Row /\ req[r].op = "callback" /\ None \notin Requests
  BY PagesAssumption DEF IInv, InHand, Fails, Connects, Active, Ops, Sessions, Types
<1>r. /\ req'[r].pc = "done" /\ req[r].pc = "exchanging"
      /\ \A q \in Requests \ {r} : req'[q] = req[q]
      /\ \A q \in Requests : req'[q].on = req[q].on /\ req'[q].op = req[q].op
                             /\ req'[q].saw = req[q].saw
      /\ \A q \in Requests : Active(q)' => Active(q)
  BY <1>1 DEF Fails, Connects, Ends, Types, Req, Active
<1>o. <<s, r>> \notin announced /\ \A c \in creds : c.by # r
  BY <1>1, <1>r DEF Heard
<1>2. /\ \A x, y : x \in States /\ y \in Requests \union {None} =>
           [state |-> x, count |-> 1, result |-> y] \in Row
      /\ {"failed", "completed"} \subseteq States
  BY PagesAssumption DEF Row, States
<1>3. InHand'
  BY <1>1 DEF InHand, Fails, Connects, Ends, Active, Types, Req
<1>4. CASE Fails(r)
  <2>1. /\ sess' = [sess EXCEPT ![s] = [state |-> "failed", count |-> 1, result |-> sess[s].result]]
        /\ UNCHANGED <<announced, creds>>
    BY <1>4 DEF Fails, Settles
  <2>2. sess[s].result \in Requests \union {None}
    BY <1>1 DEF Row
  <2>3. Types'
    BY <1>1, <1>2, <1>4, <2>1, <2>2 DEF Types, Fails, Ends, Req
  <2>4. /\ sess'[s].state = "failed" /\ sess'[s].result = sess[s].result
        /\ \A q \in Sessions \ {s} : sess'[q] = sess[q]
    BY <1>1, <2>1 DEF Types
  <2>5. ResultIsAnnounced'
    BY <1>1, <2>1, <2>4 DEF ResultIsAnnounced
  <2>6. Backed'
    BY <1>1, <1>r, <2>1, <2>4 DEF Backed, Stored, Sessions
  <2>7. Heard'
    <3>1. \A c \in creds : req'[c.by].pc = "done"
      BY <1>1, <1>r DEF Heard, Types, Cred
    <3> QED BY <1>1, <1>r, <2>1, <3>1 DEF Heard
  <2> QED BY <1>3, <2>3, <2>5, <2>6, <2>7 DEF IInv
<1>5. CASE Connects(r)
  <2>1. PICK types \in {{"access"}, {"access", "refresh"}} :
          creds' = creds \union [grant : {s}, by : {r}, type : types]
    BY <1>5 DEF Connects
  <2>2. /\ sess' = [sess EXCEPT ![s] = [state |-> "completed", count |-> 1, result |-> r]]
        /\ announced' = announced \union {<<s, r>>}
    BY <1>5 DEF Connects, Settles
  <2>3. [grant |-> s, by |-> r, type |-> "access"] \in creds'
    BY <2>1
  <2>4. creds' \subseteq Cred /\ \A c \in creds' : c \in creds \/ c.grant = s
    BY <1>1, <2>1 DEF Types, Cred
  <2>5. Types'
    BY <1>1, <1>2, <1>5, <2>2, <2>4 DEF Types, Connects, Ends, Req
  <2>6. /\ sess'[s].state = "completed" /\ sess'[s].result = r
        /\ \A q \in Sessions \ {s} : sess'[q] = sess[q]
    BY <1>1, <2>2 DEF Types
  <2>7. ResultIsAnnounced'
    BY <1>1, <2>2, <2>6 DEF ResultIsAnnounced
  <2>8. Backed'
    <3>1. /\ \A g \in Grants : g = s => Stored(g, r)'
          /\ \A g \in Grants, q \in Requests : <<g, q>> # <<s, r>> =>
               (Stored(g, q)' <=> Stored(g, q))
      BY <2>1, <2>3 DEF Stored
    <3> SUFFICES ASSUME NEW g \in Grants
                 PROVE  /\ \A q \in Requests : req'[q].on = g /\ req'[q].op = "callback"
                              => (<<g, q>> \in announced' <=> Stored(g, q)')
                        /\ sess'[g].state = "completed"
                              => \E q \in Requests : /\ sess'[g].result = q /\ req'[q].on = g
                                                      /\ req'[q].op = "callback" /\ Stored(g, q)'
                        /\ sess'[g].state \in {"none", "pending"} => \A c \in creds' : c.grant # g
      BY DEF Backed
    <3>2. CASE g = s
      BY <1>1, <1>r, <2>2, <2>6, <3>1, <3>2 DEF Backed
    <3>3. CASE g # s
      <4>1. sess'[g] = sess[g] /\ \A q : <<g, q>> \in announced' <=> <<g, q>> \in announced
        BY <3>3, <2>2, <2>6 DEF Sessions
      <4> QED BY <1>1, <1>r, <3>1, <3>3, <4>1, <2>4 DEF Backed
    <3> QED BY <3>2, <3>3
  <2>9. Heard'
    <3>1. \A c \in creds' : c \in creds \/ c.by = r
      BY <2>1
    <3>2. \A c \in creds' : req'[c.by].pc = "done"
      BY <1>1, <1>r, <3>1 DEF Heard, Types, Cred
    <3> QED BY <1>1, <1>r, <2>2, <3>2 DEF Heard
  <2> QED BY <1>3, <2>5, <2>7, <2>8, <2>9 DEF IInv
<1> QED BY <1>4, <1>5

LEMMA Inits == Init => IInv
<1> SUFFICES ASSUME Init
             PROVE  IInv
  OBVIOUS
<1>1. /\ Blank = [state |-> "none", count |-> 0, result |-> None]
      /\ Waiting = [pc |-> "idle", op |-> "get", on |-> None, saw |-> Blank]
  BY DEF Blank, Waiting
<1>2. Blank \in Row
  BY <1>1, PagesAssumption DEF Row, States
<1>3. Waiting \in Req
  BY <1>1, <1>2 DEF Req
<1>4. /\ sess = [s \in Sessions |-> Blank] /\ req = [r \in Requests |-> Waiting]
      /\ announced = {} /\ creds = {}
  BY DEF Init
<1>5. Types
  BY <1>2, <1>3, <1>4 DEF Types
<1>6. InHand
  BY <1>1, <1>4 DEF InHand, Active
<1>7. ResultIsAnnounced /\ Heard /\ Backed
  BY <1>1, <1>4 DEF ResultIsAnnounced, Heard, Backed, Stored, Sessions, Active
<1> QED BY <1>5, <1>6, <1>7 DEF IInv

\* A request that ends and leaves the tables alone.
LEMMA Leaves ==
    ASSUME IInv, NEW r \in Requests, Ends(r), UNCHANGED <<sess, announced, creds>>
    PROVE  IInv'
<1>1. Types /\ InHand /\ ResultIsAnnounced /\ Heard /\ Backed
  BY DEF IInv
<1>5. \A q \in Requests : /\ req'[q].on = req[q].on /\ req'[q].op = req[q].op
                          /\ req'[q].saw = req[q].saw /\ req'[q].pc \in {req[q].pc, "done"}
  BY <1>1 DEF Ends, Types, Req
<1>2. Types'
  BY <1>1 DEF Types, Ends, Req
<1>3. InHand'
  BY <1>1 DEF InHand, Ends, Active, Types, Req
<1>4. ResultIsAnnounced' /\ Backed'
  BY <1>1, <1>5 DEF ResultIsAnnounced, Backed, Stored
<1>6. Heard'
  <2>1. \A q \in Requests : Active(q)' => Active(q)
    BY <1>5 DEF Active
  <2>2. \A c \in creds : c.by \in Requests
    BY <1>1 DEF Types, Cred
  <2> QED BY <1>1, <1>5, <2>1, <2>2 DEF Heard
<1> QED BY <1>2, <1>3, <1>4, <1>6 DEF IInv

LEMMA Steps == IInv /\ [Next]_vars => IInv'
<1> SUFFICES ASSUME IInv, [Next]_vars
             PROVE  IInv'
  OBVIOUS
<1> USE DEF IInv
<1>1. ASSUME NEW s \in Sessions, ServePage(s) \/ Authorize(s)
      PROVE  IInv'
  <2>1. /\ sess[s].state = "none" /\ sess' = [sess EXCEPT ![s] = Pending]
        /\ UNCHANGED <<announced, creds, req>>
    BY <1>1 DEF ServePage, Authorize, Created
  <2>2. Pending \in Row /\ Pending.state = "pending" /\ Pending.result = None
    BY PagesAssumption DEF Pending, Blank, Row, States
  <2>3. /\ sess' \in [Sessions -> Row] /\ sess'[s] = Pending
        /\ \A q \in Sessions \ {s} : sess'[q] = sess[q]
    BY <2>1, <2>2 DEF Types
  <2>4. Types' /\ InHand'
    BY <2>1, <2>3 DEF Types, InHand, Active
  <2>5. ResultIsAnnounced'
    BY <2>1, <2>2, <2>3 DEF ResultIsAnnounced
  <2>6. Backed' /\ Heard'
    BY <2>1, <2>2, <2>3 DEF Backed, Stored, Heard, Active, Sessions
  <2> QED BY <2>4, <2>5, <2>6
<1>2. ASSUME NEW s \in Sessions, Lapses(s)
      PROVE  IInv'
  BY <1>2 DEF Lapses, Types, InHand, Active, ResultIsAnnounced, Heard, Backed, Stored
<1>3. ASSUME NEW r \in Requests, NEW s \in Sessions, NEW op \in Ops(s), Reads(r, s, op)
      PROVE  IInv'
  <2>1. UNCHANGED <<sess, announced, creds>>
    BY <1>3 DEF Reads
  <2>2. req' = [req EXCEPT ![r] = [pc |-> "read", op |-> op, on |-> s, saw |-> sess[s]]]
    BY <1>3 DEF Reads
  <2>3. [pc |-> "read", op |-> op, on |-> s, saw |-> sess[s]] \in Req
    BY DEF Types, Req, Ops
  <2>4. Types'
    BY <2>1, <2>2, <2>3 DEF Types
  <2>5. InHand'
    BY <2>1, <2>2, <1>3 DEF InHand, Active, Types
  <2>6. /\ req[r].pc = "idle" /\ req'[r].on = s /\ req'[r].saw = sess[s] /\ req'[r].pc = "read"
        /\ \A q \in Requests \ {r} : req'[q] = req[q]
    BY <1>3, <2>2 DEF Reads, Types
  <2>7. Heard'
    BY <2>1, <2>6 DEF Heard, ResultIsAnnounced, Active, Types, Cred
  <2>8. Backed'
    <3>1. \A g \in Grants : <<g, r>> \notin announced /\ ~Stored(g, r)
      BY <2>6 DEF Heard, Stored, Sessions
    <3>2. \A g \in Grants, q \in Requests : Stored(g, q)' <=> Stored(g, q)
      BY <2>1 DEF Stored
    <3>3. \A g \in Grants : sess[g].state = "completed" =>
            \E q \in Requests \ {r} : /\ sess[g].result = q /\ req[q].on = g
                                       /\ req[q].op = "callback" /\ Stored(g, q)
      BY <3>1 DEF Backed
    <3>4. \A g \in Grants : \A q \in Requests : req'[q].on = g /\ req'[q].op = "callback"
            => (<<g, q>> \in announced' <=> Stored(g, q)')
      BY <2>1, <2>6, <3>1, <3>2 DEF Backed
    <3> QED BY <2>1, <2>6, <3>2, <3>3, <3>4 DEF Backed
  <2> QED BY <2>1, <2>4, <2>5, <2>7, <2>8 DEF ResultIsAnnounced
<1>4. ASSUME NEW r \in Requests, Shows(r)
      PROVE  IInv'
  <2>1. req[r].saw \in Row
    BY DEF Types, Req
  <2> QED BY <1>4, <2>1, LookedIsModest, Answers DEF Shows, Active, Closing
<1>5. ASSUME NEW r \in Requests, Submits(r)
      PROVE  IInv'
  <2>1. req[r].saw \in Row
    BY DEF Types, Req
  <2>2. /\ Modest(Submitted(req[r].on, req[r].saw, r), req[r].saw, r)
        /\ req[r].on \in Grants => Closing(Submitted(req[r].on, req[r].saw, r), req[r].saw)
    BY <2>1, SubmittedIsModest
  <2> QED BY <1>5, <2>2, Answers DEF Submits, Active
<1>6. ASSUME NEW r \in Requests, Cancels(r)
      PROVE  IInv'
  <2>1. req[r].saw \in Row
    BY DEF Types, Req
  <2> QED BY <1>6, <2>1, CancelledIsModest, Answers DEF Cancels, Active, Closing
<1>7. ASSUME NEW r \in Requests, Rejects(r)
      PROVE  IInv'
  <2>1. req[r].saw \in Row
    BY DEF Types, Req
  <2>2. CASE Writes(r, Refused(req[r].on, req[r].saw))
    BY <1>7, <2>1, <2>2, RefusedIsModest, Answers DEF Rejects, Active, Closing
  <2>3. CASE UNCHANGED sess
    BY <1>7, <2>3, Leaves DEF Rejects
  <2> QED BY <1>7, <2>2, <2>3 DEF Rejects
<1>8. ASSUME NEW r \in Requests, Consumes(r)
      PROVE  IInv'
  <2>1. /\ UNCHANGED <<sess, announced, creds>> /\ req' = [req EXCEPT ![r].pc = "exchanging"]
        /\ req[r].pc = "read" /\ req[r].op = "callback" /\ req[r].saw.state = "pending"
    BY <1>8 DEF Consumes, Consumable
  <2>2. Types' /\ InHand'
    BY <2>1 DEF Types, Req, InHand, Active
  <2>3. /\ \A q \in Requests : /\ req'[q].on = req[q].on /\ req'[q].op = req[q].op
                               /\ req'[q].saw = req[q].saw
        /\ \A q \in Requests : (Active(q)' => Active(q)) /\ (req[q].pc = "done" => req'[q] = req[q])
    BY <2>1 DEF Types, Req, Active
  <2>4. Heard'
    BY <2>1, <2>3 DEF Heard, Types, Cred
  <2> QED BY <2>1, <2>2, <2>3, <2>4 DEF ResultIsAnnounced, Backed, Stored
<1>9. ASSUME NEW r \in Requests, Dies(r)
      PROVE  IInv'
  BY <1>9, Leaves DEF Dies
<1>10. CASE UNCHANGED vars
  BY <1>10 DEF vars, Types, InHand, Active, ResultIsAnnounced, Heard, Backed, Stored
<1> QED BY <1>1, <1>2, <1>3, <1>4, <1>5, <1>6, <1>7, <1>8, <1>9, <1>10, Exchanged
        DEF Next, Request

\* What races with what does not matter: the result a session holds was
\* announced by the transaction that recorded it (app.py:515-528).
THEOREM Announced == Spec => []ResultIsAnnounced
<1>1. IInv => ResultIsAnnounced
  BY DEF IInv
<1> QED BY <1>1, Inits, Steps, PTL DEF Spec

\* A session that stands as completed is one whose callback stored a credential
\* and announced its end in the same transaction, whatever else was submitted to
\* it, cancelled or expired meanwhile (oauth.py:276-398, app.py:515-528).
THEOREM Connected == Spec => []ConnectedIsBacked
<1>1. IInv => ConnectedIsBacked
  BY DEF IInv, Backed, ConnectedIsBacked
<1> QED BY <1>1, Inits, Steps, PTL DEF Spec

\* A session that is over keeps its result from whoever read it late
\* (web_pages.py:106-110, oauth.py:263-265).
THEOREM LateIsLost == Spec => LateIsNeverRecorded
<1> DEFINE Over(s) ==
      /\ sess[s].state \notin {"none", "pending"}
      /\ \A r \in Requests : req[r].on = s /\ req[r].pc \in {"read", "exchanging"}
            => req[r].saw.state # "pending"
<1>1. ASSUME IInv, Next, NEW s \in Sessions, Over(s)
      PROVE  sess'[s].result = sess[s].result
  <2>1. Types /\ InHand
    BY <1>1 DEF IInv
  <2>2. ASSUME NEW r \in Requests, Active(r), NEW row \in Row, Writes(r, row),
               req[r].on = s => row.result = req[r].saw.result
        PROVE  sess'[s].result = sess[s].result
    <3>1. req[r].on \in Sessions
      BY <2>1, <2>2 DEF InHand
    <3> QED BY <2>1, <2>2, <3>1, Written
  <2>3. ASSUME NEW q \in Sessions, Created(q)
        PROVE  sess'[s].result = sess[s].result
    BY <1>1, <2>1, <2>3 DEF Created, Types
  <2>4. ASSUME NEW r \in Requests, Request(r)
        PROVE  sess'[s].result = sess[s].result
    <3>1. req[r].saw \in Row
      BY <2>1 DEF Types, Req
    <3>2. CASE Shows(r)
      BY <2>2, <3>1, <3>2, LookedIsModest DEF Shows, Active, Modest
    <3>3. CASE Submits(r)
      BY <1>1, <2>2, <3>1, <3>3, SubmittedIsModest DEF Submits, Active, Modest
    <3>4. CASE Cancels(r)
      BY <2>2, <3>1, <3>4, CancelledIsModest DEF Cancels, Active, Modest
    <3>5. CASE Rejects(r)
      BY <2>2, <3>1, <3>5, RefusedIsModest DEF Rejects, Active, Modest
    <3>6. CASE Fails(r) \/ Connects(r)
      <4>1. req[r].on # s
        BY <1>1, <2>1, <3>6 DEF Fails, Connects, InHand
      <4> QED BY <2>1, <3>6, <4>1 DEF Fails, Connects, Settles, Types
    <3>7. CASE UNCHANGED sess
      BY <3>7
    <3> QED BY <2>4, <3>2, <3>3, <3>4, <3>5, <3>6, <3>7 DEF Request, Reads, Consumes, Dies
  <2> QED BY <1>1, <2>3, <2>4 DEF Next, ServePage, Authorize, Lapses
<1>2. IInv /\ [Next]_vars =>
        [\A s \in Sessions : Over(s) => sess'[s].result = sess[s].result]_vars
  BY <1>1
<1> QED BY <1>2, Inits, Steps, PTL DEF Spec, LateIsNeverRecorded
=============================================================================
