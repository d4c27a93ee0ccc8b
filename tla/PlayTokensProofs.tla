--------------------------- MODULE PlayTokensProofs ---------------------------
(***************************************************************************)
(* Proofs about PlayTokens for any number of tokens, sessions,             *)
(* authenticate calls and updates: revocation and updates reach the        *)
(* children of a token, a token is used once, a closed session leaves only *)
(* late validations in the store, and a purge accounts for every flow that *)
(* may use its token.                                                      *)
(***************************************************************************)
EXTENDS PlayTokens, TLAPS

(* A holder is made by a call that is done, and only children have         *)
(* callbacks.                                                              *)
LifeInv ==
  \A a \in Auths :
    /\ a \in stored \cup child \cup revoked => auth[a] = "done"
    /\ a \notin child => pending[a] = <<>>
    /\ auth[a] # "done" => perm[a] = 0 /\ due[a] = 0

(* A token that was read is issued no more, and gone once it is used.      *)
UsedInv ==
  /\ \A t \in redis : purge[t] # "unissued"
  /\ \A a \in Auths :
       /\ auth[a] \in {"get", "del", "done"} => token[a] \in Tokens
       /\ auth[a] \in {"del", "done"} => purge[token[a]] # "unissued"
       /\ auth[a] = "done" => token[a] \notin redis

(* The store has one holder of an id, and no child without its parent.     *)
StoreInv ==
  /\ \A p, q \in stored \ child : token[p] = token[q] => p = q
  /\ \A c \in stored \cap child :
       \E p \in stored \ child : token[p] = token[c] /\ owner[p] = owner[c]

(* A validation that goes on after its session closed is late.             *)
LateInv == \A a \in Auths : a \in UnderWay /\ owner[a] \notin open => a \in late

(* The permission d is the one that stands after the callbacks q.          *)
Settled(q, p, d) ==
  \/ p = d /\ \A i \in 1 .. Len(q) : q[i] = Revoke
  \/ \E i \in 1 .. Len(q) : /\ q[i] = d
                            /\ \A j \in i + 1 .. Len(q) : q[j] = Revoke

SettleInv == \A a \in stored \ overtaken : Settled(pending[a], perm[a], due[a])

------------------------------------------------------------------------------
(* Publishing, validating and cascading keep the types.                    *)
LEMMA TypeStep == TypeOK /\ [Next]_vars => TypeOK'
<1> SUFFICES ASSUME TypeOK, [Next]_vars PROVE TypeOK'
    OBVIOUS
<1> USE MaxUpdatesAssumption, NoneAssumption
    DEF TypeOK, api, broker, calls, holders, Versions
<1>1. CASE UNCHANGED vars
  BY <1>1 DEF vars
<1>2. ASSUME NEW t \in Tokens, ApiStep(t) PROVE TypeOK'
  <2>1. CASE GenerateToken(t)
    BY <2>1 DEF GenerateToken, Purging
  <2>2. CASE ExpireToken(t)
    BY <2>2 DEF ExpireToken
  <2>3. CASE PurgeFind(t)
    BY <2>3 DEF PurgeFind, Purging
  <2>4. CASE PurgeDelete(t)
    BY <2>4 DEF PurgeDelete, Purging
  <2>5. CASE PurgePublish(t)
    <3>1. Event("revoke", "token", t, 0) \in Events
      BY DEF Event, Events
    <3>2. Append(events, Event("revoke", "token", t, 0)) \in Seq(Events)
      BY <3>1
    <3>3. Affected(t) \subseteq Auths
      BY DEF Affected
    <3>4. events' \in Seq(Events) /\ missed' \subseteq Auths
      BY <2>5, <3>2, <3>3 DEF PurgePublish
    <3> QED
      BY <2>5, <3>4 DEF PurgePublish, Purging
  <2>6. CASE PurgeFails(t)
    BY <2>6 DEF PurgeFails
  <2>7. CASE PermitFind(t)
    BY <2>7 DEF PermitFind
  <2> QED
    BY <1>2, <2>1, <2>2, <2>3, <2>4, <2>5, <2>6, <2>7 DEF ApiStep
<1>3. ASSUME NEW scope \in {"token", "play", "childPlay", "user"},
             NEW t \in Tokens \cup {NoToken}, PublishUpdate(scope, t),
             permit' \in Tokens \cup {NoToken}
      PROVE  TypeOK'
  <2>1. version + 1 \in Versions
    BY <1>3 DEF PublishUpdate
  <2>2. Event("update", scope, t, version + 1) \in Events
    BY <2>1 DEF Event, Events
  <2> QED
    BY <1>3, <2>1, <2>2 DEF PublishUpdate
<1>4. CASE PermitPublish
  BY <1>4, <1>3 DEF PermitPublish
<1>5. CASE PermitAll
  BY <1>5, <1>3 DEF PermitAll
<1>6. ASSUME NEW a \in Auths, AuthStep(a) PROVE TypeOK'
  <2>1. ASSUME NEW s \in Sessions, AuthenticateChild(a, s) PROVE TypeOK'
    BY <2>1 DEF AuthenticateChild, Start
  <2>2. ASSUME NEW s \in Sessions, NEW t \in Tokens, Authenticate(a, s, t) PROVE TypeOK'
    BY <2>2 DEF Authenticate, Start
  <2>3. CASE GetToken(a)
    BY <2>3 DEF GetToken, Goto
  <2>4. CASE DelToken(a)
    BY <2>4 DEF DelToken, Goto, AddHolder
  <2>5. CASE ValidateBySession(a)
    BY <2>5, SMTT(30) DEF ValidateBySession, Goto, Parents
  <2>6. CASE ValidateFails(a)
    BY <2>6 DEF ValidateFails, Goto
  <2>7. CASE RunImmediate(a)
    <3>1. pending[a] \in Seq(Versions \cup {Revoke}) /\ pending[a] # <<>>
      BY <2>7 DEF RunImmediate
    <3>2. /\ Head(pending[a]) \in Versions \cup {Revoke}
          /\ Tail(pending[a]) \in Seq(Versions \cup {Revoke})
      BY <3>1
    <3> QED
      BY <2>7, <3>2, ZenonT(60) DEF RunImmediate
  <2> QED
    BY <1>6, <2>1, <2>2, <2>3, <2>4, <2>5, <2>6, <2>7 DEF AuthStep
<1>7. ASSUME NEW s \in Sessions, CloseSession(s) PROVE TypeOK'
  BY <1>7 DEF CloseSession, DeleteBySession, OwnedBy, UnderWay
<1>8. CASE OnMessage
  <2>1. /\ Head(events) \in Events
        /\ Tail(events) \in Seq(Events)
    BY <1>8 DEF OnMessage
  <2> DEFINE e == Head(events)
  <2>2. e.version \in Versions
    BY <2>1 DEF Events
  <2>3. Named(e) \subseteq stored
    BY <2>1 DEF Named, Events
  <2>4. ASSUME NEW C, NEW x \in Versions \cup {Revoke}, Cascade(C, x)
        PROVE  pending' \in [Auths -> Seq(Versions \cup {Revoke})]
    <3>1. \A a \in Auths : Append(pending[a], x) \in Seq(Versions \cup {Revoke})
      BY <2>4
    <3> QED
      BY <2>4, <3>1 DEF Cascade
  <2>5. CASE e.kind = "revoke"
    BY <1>8, <2>1, <2>3, <2>4, <2>5 DEF OnMessage, RevokePlayToken, Affected
  <2>6. CASE e.kind # "revoke"
    <3>1. UpdatePermission(Named(e), e.version)
      BY <1>8, <2>6 DEF OnMessage
    <3>2. pending' \in [Auths -> Seq(Versions \cup {Revoke})]
      BY <3>1, <2>2, <2>4 DEF UpdatePermission
    <3>3. perm' \in [Auths -> Versions] /\ due' \in [Auths -> Versions]
      BY <3>1, <2>2 DEF UpdatePermission
    <3>4. overtaken' \subseteq Auths /\ revoked' = revoked
      BY <3>1, <2>3 DEF UpdatePermission
    <3> QED
      BY <1>8, <2>1, <2>6, <3>2, <3>3, <3>4 DEF OnMessage
  <2> QED
    BY <2>5, <2>6
<1>9. CASE Disconnect
  <2>1. \A t : Affected(t) \subseteq Auths
    BY DEF Affected
  <2>2. missed' \subseteq Auths
    BY <1>9, <2>1 DEF Disconnect
  <2>3. events' \in Seq(Events)
    BY <1>9 DEF Disconnect
  <2> QED
    BY <1>9, <2>2, <2>3 DEF Disconnect
<1>10. CASE Connect
  BY <1>10 DEF Connect
<1>11. CASE GiveUp
  BY <1>11 DEF GiveUp
<1> QED
  BY <1>1, <1>2, <1>4, <1>5, <1>6, <1>7, <1>8, <1>9, <1>10, <1>11 DEF Next

(* What an event names is in the store.                                    *)
LEMMA NamedStored ==
  ASSUME NEW e \in Events
  PROVE  Named(e) \subseteq stored
BY DEF Named, Events

LEMMA HeadEvent ==
  ASSUME TypeOK, events # <<>>
  PROVE  Head(events) \in Events /\ Head(events).version \in Versions
<1>1. Head(events) \in Events
  BY DEF TypeOK
<1> QED
  BY <1>1 DEF Events

(* Which calls a step may finish: one validation, by a token or a parent.  *)
LEMMA LifeStep == TypeOK /\ LifeInv /\ [Next]_vars => LifeInv'
<1> SUFFICES ASSUME TypeOK, LifeInv, [Next]_vars PROVE LifeInv'
    OBVIOUS
<1> USE DEF LifeInv, api, broker, calls, holders
<1>1. CASE UNCHANGED vars
  BY <1>1 DEF vars
<1>2. ASSUME NEW t \in Tokens, ApiStep(t) PROVE LifeInv'
  BY <1>2 DEF ApiStep, GenerateToken, ExpireToken, PurgeFind, PurgeDelete,
              PurgePublish, PurgeFails, PermitFind
<1>3. CASE PermitPublish \/ PermitAll
  BY <1>3 DEF PermitPublish, PermitAll, PublishUpdate
<1>4. ASSUME NEW a \in Auths, AuthStep(a) PROVE LifeInv'
  <2> USE DEF TypeOK
  <2>1. ASSUME NEW s \in Sessions, AuthenticateChild(a, s) PROVE LifeInv'
    BY <2>1 DEF AuthenticateChild, Start
  <2>2. ASSUME NEW s \in Sessions, NEW t \in Tokens, Authenticate(a, s, t) PROVE LifeInv'
    BY <2>2 DEF Authenticate, Start
  <2>3. CASE GetToken(a)
    BY <2>3 DEF GetToken, Goto
  <2>4. CASE DelToken(a)
    BY <2>4 DEF DelToken, Goto, AddHolder
  <2>5. CASE ValidateBySession(a)
    BY <2>5 DEF ValidateBySession, Goto
  <2>6. CASE ValidateFails(a)
    BY <2>6 DEF ValidateFails, Goto
  <2>7. CASE RunImmediate(a)
    BY <2>7 DEF RunImmediate
  <2> QED
    BY <1>4, <2>1, <2>2, <2>3, <2>4, <2>5, <2>6, <2>7 DEF AuthStep
<1>5. ASSUME NEW s \in Sessions, CloseSession(s) PROVE LifeInv'
  BY <1>5 DEF CloseSession, DeleteBySession
<1>6. CASE OnMessage
  <2>1. Named(Head(events)) \subseteq stored
    BY <1>6, HeadEvent, NamedStored DEF OnMessage
  <2>2. Children(Named(Head(events))) \subseteq stored \cap child
    BY DEF Children
  <2>3. stored \subseteq Auths
    BY DEF TypeOK
  <2>4. CASE Head(events).kind = "revoke"
    BY <1>6, <2>1, <2>2, <2>3, <2>4 DEF OnMessage, RevokePlayToken, Cascade
  <2>5. CASE Head(events).kind # "revoke"
    BY <1>6, <2>1, <2>2, <2>3, <2>5 DEF OnMessage, UpdatePermission, Cascade
  <2> QED
    BY <2>4, <2>5
<1>7. CASE Disconnect \/ Connect
  BY <1>7 DEF Disconnect, Connect
<1>8. CASE GiveUp
  BY <1>8 DEF GiveUp, UnderWay, TypeOK
<1> QED
  BY <1>1, <1>2, <1>3, <1>4, <1>5, <1>6, <1>7, <1>8 DEF Next

(* The order of get, del and the end of a validation keeps tokens single.  *)
LEMMA UsedStep == TypeOK /\ LifeInv /\ UsedInv /\ [Next]_vars => UsedInv'
<1> SUFFICES ASSUME TypeOK, LifeInv, UsedInv, [Next]_vars PROVE UsedInv'
    OBVIOUS
<1> USE DEF UsedInv, api, broker, calls, holders
<1>1. CASE UNCHANGED vars
  BY <1>1 DEF vars
<1>2. ASSUME NEW t \in Tokens, ApiStep(t) PROVE UsedInv'
  <2> USE DEF TypeOK
  <2>1. CASE GenerateToken(t)
    BY <2>1 DEF GenerateToken, Purging
  <2>2. CASE ExpireToken(t)
    BY <2>2 DEF ExpireToken
  <2>3. CASE PurgeFind(t)
    BY <2>3 DEF PurgeFind, Purging
  <2>4. CASE PurgeDelete(t)
    BY <2>4 DEF PurgeDelete, Purging
  <2>5. CASE PurgePublish(t)
    BY <2>5 DEF PurgePublish, Purging
  <2>6. CASE PurgeFails(t)
    BY <2>6 DEF PurgeFails
  <2>7. CASE PermitFind(t)
    BY <2>7 DEF PermitFind
  <2> QED
    BY <1>2, <2>1, <2>2, <2>3, <2>4, <2>5, <2>6, <2>7 DEF ApiStep
<1>3. CASE PermitPublish \/ PermitAll
  BY <1>3 DEF PermitPublish, PermitAll, PublishUpdate
<1>4. ASSUME NEW a \in Auths, AuthStep(a) PROVE UsedInv'
  <2> USE DEF TypeOK
  <2>1. ASSUME NEW s \in Sessions, AuthenticateChild(a, s) PROVE UsedInv'
    BY <2>1 DEF AuthenticateChild, Start
  <2>2. ASSUME NEW s \in Sessions, NEW t \in Tokens, Authenticate(a, s, t) PROVE UsedInv'
    BY <2>2 DEF Authenticate, Start
  <2>3. CASE GetToken(a)
    BY <2>3 DEF GetToken, Goto
  <2>4. CASE DelToken(a)
    BY <2>4 DEF DelToken, Goto
  <2>5. CASE ValidateBySession(a)
    <3>1. PICK p \in Parents(a) : token' = [token EXCEPT ![a] = token[p]]
      BY <2>5 DEF ValidateBySession
    <3>2. p \in Auths /\ auth[p] = "done"
      BY <3>1 DEF Parents, LifeInv
    <3> QED
      BY <2>5, <3>1, <3>2 DEF ValidateBySession, Goto
  <2>6. CASE ValidateFails(a)
    BY <2>6 DEF ValidateFails, Goto
  <2>7. CASE RunImmediate(a)
    BY <2>7 DEF RunImmediate
  <2> QED
    BY <1>4, <2>1, <2>2, <2>3, <2>4, <2>5, <2>6, <2>7 DEF AuthStep
<1>5. ASSUME NEW s \in Sessions, CloseSession(s) PROVE UsedInv'
  BY <1>5 DEF CloseSession
<1>6. CASE OnMessage \/ Disconnect \/ Connect
  BY <1>6 DEF OnMessage, Disconnect, Connect
<1>7. CASE GiveUp
  BY <1>7 DEF GiveUp, UnderWay, TypeOK
<1> QED
  BY <1>1, <1>2, <1>3, <1>4, <1>5, <1>6, <1>7 DEF Next

------------------------------------------------------------------------------
(* Steps other than a validation, the close of a session and the end of    *)
(* the process leave calls and store alone.                                *)
LEMMA QuietStep ==
  ASSUME TypeOK, [Next]_vars,
         ~ \E a \in Auths : \/ \E s \in Sessions, t \in Tokens \cup {NoToken}, l \in {"get", "relation"} :
                                 Start(a, s, t, l)
                            \/ GetToken(a) \/ DelToken(a)
                            \/ ValidateBySession(a) \/ ValidateFails(a),
         ~ \E s \in Sessions : CloseSession(s),
         ~ GiveUp
  PROVE  UNCHANGED <<calls, stored>>
<1> USE DEF api, broker, calls, holders
<1>1. CASE UNCHANGED vars
  BY <1>1 DEF vars
<1>2. ASSUME NEW t \in Tokens, ApiStep(t) PROVE UNCHANGED <<calls, stored>>
  BY <1>2 DEF ApiStep, GenerateToken, ExpireToken, PurgeFind, PurgeDelete,
              PurgePublish, PurgeFails, PermitFind
<1>3. CASE PermitPublish \/ PermitAll
  BY <1>3 DEF PermitPublish, PermitAll, PublishUpdate
<1>4. ASSUME NEW a \in Auths, AuthStep(a) PROVE UNCHANGED <<calls, stored>>
  BY <1>4 DEF AuthStep, AuthenticateChild, Authenticate, RunImmediate
<1>5. CASE OnMessage \/ Disconnect \/ Connect
  BY <1>5 DEF OnMessage, Disconnect, Connect
<1> QED
  BY <1>1, <1>2, <1>3, <1>4, <1>5 DEF Next

(* One holder of an id, and parents beside their children.                 *)
LEMMA StoreStep == TypeOK /\ LifeInv /\ StoreInv /\ [Next]_vars => StoreInv'
<1> SUFFICES ASSUME TypeOK, LifeInv, StoreInv, [Next]_vars PROVE StoreInv'
    OBVIOUS
<1> USE DEF StoreInv, api, broker, calls, holders
<1>0. ASSUME UNCHANGED <<calls, stored>> PROVE StoreInv'
  BY <1>0
<1>1. ASSUME NEW a \in Auths, NEW s \in Sessions, NEW t \in Tokens \cup {NoToken},
             NEW l \in {"get", "relation"}, Start(a, s, t, l)
      PROVE  StoreInv'
  <2>1. a \notin stored /\ stored \subseteq Auths
    BY <1>1 DEF Start, LifeInv, TypeOK
  <2>2. UNCHANGED <<stored, child>>
    BY <1>1 DEF Start
  <2>3. \A b \in stored : token'[b] = token[b] /\ owner'[b] = owner[b]
    BY <1>1, <2>1 DEF Start, TypeOK
  <2> QED
    BY <2>2, <2>3
<1>2. ASSUME NEW a \in Auths, GetToken(a) \/ ValidateFails(a) PROVE StoreInv'
  BY <1>2 DEF GetToken, ValidateFails
<1>3. ASSUME NEW a \in Auths, DelToken(a) PROVE StoreInv'
  <2>1. a \notin child /\ a \notin stored
    BY <1>3 DEF DelToken, LifeInv
  <2>2. CASE stored' = stored
    BY <1>3, <2>2 DEF DelToken
  <2>3. CASE stored' = stored \cup {a} /\ ~Known(token[a])
    BY <1>3, <2>1, <2>3 DEF DelToken, Known
  <2> QED
    BY <1>3, <2>2, <2>3 DEF DelToken, AddHolder
<1>4. ASSUME NEW a \in Auths, ValidateBySession(a) PROVE StoreInv'
  <2>1. a \notin child /\ a \notin stored
    BY <1>4 DEF ValidateBySession, LifeInv
  <2>2. PICK p \in Parents(a) : token' = [token EXCEPT ![a] = token[p]]
    BY <1>4 DEF ValidateBySession
  <2>3. /\ child' = child \cup {a}
        /\ stored' = stored \cup {a}
        /\ owner' = owner
    BY <1>4 DEF ValidateBySession
  <2>4. p \in stored \ child /\ owner[p] = owner[a] /\ p # a
    BY <2>1, <2>2 DEF Parents
  <2>5. /\ token'[a] = token[p]
        /\ \A b \in Auths : b # a => token'[b] = token[b]
    BY <2>2 DEF TypeOK
  <2>6. stored' \ child' = stored \ child
    BY <2>1, <2>3
  <2>7. stored \subseteq Auths
    BY DEF TypeOK
  <2>8. \A q, r \in stored' \ child' : token'[q] = token'[r] => q = r
    BY <2>1, <2>5, <2>6, <2>7
  <2>9. \A c \in stored' \cap child' :
          \E q \in stored' \ child' : token'[q] = token'[c] /\ owner'[q] = owner'[c]
    BY <2>1, <2>3, <2>4, <2>5, <2>6, <2>7
  <2> QED
    BY <2>8, <2>9
<1>5. ASSUME NEW s \in Sessions, CloseSession(s) PROVE StoreInv'
  BY <1>5 DEF CloseSession, DeleteBySession, OwnedBy, TypeOK
<1>6. CASE GiveUp
  BY <1>6 DEF GiveUp
<1> QED
  BY <1>0, <1>1, <1>2, <1>3, <1>4, <1>5, <1>6, QuietStep

(* Closing a session sweeps the store, late validations aside.             *)
LEMMA SweepStep ==
  TypeOK /\ LifeInv /\ LateInv /\ ClosedSessionSwept /\ [Next]_vars
    => LateInv' /\ ClosedSessionSwept'
<1> SUFFICES ASSUME TypeOK, LifeInv, LateInv, ClosedSessionSwept, [Next]_vars
             PROVE  LateInv' /\ ClosedSessionSwept'
    OBVIOUS
<1> USE DEF LateInv, ClosedSessionSwept, UnderWay, calls, api, broker, holders
<1>0. ASSUME UNCHANGED <<calls, stored>> PROVE LateInv' /\ ClosedSessionSwept'
  BY <1>0
<1> USE DEF TypeOK
<1>1. ASSUME NEW a \in Auths, NEW s \in Sessions, NEW t \in Tokens \cup {NoToken},
             NEW l \in {"get", "relation"}, Start(a, s, t, l)
      PROVE  LateInv' /\ ClosedSessionSwept'
  BY <1>1 DEF Start, LifeInv
<1>2. ASSUME NEW a \in Auths, GetToken(a) \/ ValidateFails(a)
      PROVE  LateInv' /\ ClosedSessionSwept'
  BY <1>2 DEF GetToken, ValidateFails, Goto
<1>3. ASSUME NEW a \in Auths, DelToken(a) PROVE LateInv' /\ ClosedSessionSwept'
  BY <1>3 DEF DelToken, Goto, AddHolder
<1>4. ASSUME NEW a \in Auths, ValidateBySession(a) PROVE LateInv' /\ ClosedSessionSwept'
  BY <1>4 DEF ValidateBySession, Goto
<1>5. ASSUME NEW s \in Sessions, CloseSession(s) PROVE LateInv' /\ ClosedSessionSwept'
  BY <1>5 DEF CloseSession, DeleteBySession, OwnedBy
<1>6. CASE GiveUp
  BY <1>6 DEF GiveUp
<1> QED
  BY <1>0, <1>1, <1>2, <1>3, <1>4, <1>5, <1>6, QuietStep

------------------------------------------------------------------------------
(* The callbacks of a holder.                                              *)
Entries == Versions \cup {Revoke}

LEMMA AppendEntry ==
  ASSUME NEW q \in Seq(Entries), NEW x \in Entries
  PROVE  /\ Len(Append(q, x)) = Len(q) + 1
         /\ Append(q, x)[Len(q) + 1] = x
         /\ \A i \in 1 .. Len(q) : Append(q, x)[i] = q[i]
OBVIOUS

LEMMA TailEntry ==
  ASSUME NEW q \in Seq(Entries), q # <<>>
  PROVE  /\ Len(q) \in Nat \ {0}
         /\ Head(q) = q[1]
         /\ Tail(q) \in Seq(Entries)
         /\ Len(Tail(q)) = Len(q) - 1
         /\ \A i \in 1 .. Len(q) - 1 : Tail(q)[i] = q[i + 1]
OBVIOUS

(* A revocation leaves the permission that will stand.                     *)
LEMMA SettledRevoke ==
  ASSUME NEW q \in Seq(Entries), NEW p \in Versions, NEW d \in Versions,
         Settled(q, p, d)
  PROVE  Settled(Append(q, Revoke), p, d)
<1> DEFINE r == Append(q, Revoke)
<1>1. /\ Len(q) \in Nat
      /\ Len(r) = Len(q) + 1
      /\ r[Len(q) + 1] = Revoke
      /\ \A i \in 1 .. Len(q) : r[i] = q[i]
  BY AppendEntry DEF Entries
<1> HIDE DEF r
<1>2. CASE p = d /\ \A i \in 1 .. Len(q) : q[i] = Revoke
  <2>1. \A i \in 1 .. Len(r) : r[i] = Revoke
    BY <1>1, <1>2
  <2> QED
    BY <1>2, <2>1 DEF Settled, r
<1>3. ASSUME NEW i \in 1 .. Len(q), q[i] = d, \A j \in i + 1 .. Len(q) : q[j] = Revoke
      PROVE  Settled(r, p, d)
  <2>1. i \in 1 .. Len(r) /\ r[i] = d /\ \A j \in i + 1 .. Len(r) : r[j] = Revoke
    BY <1>1, <1>3
  <2> QED
    BY <2>1 DEF Settled
<1> QED
  BY <1>2, <1>3 DEF Settled, r

(* An update that comes last stands.                                       *)
LEMMA SettledUpdate ==
  ASSUME NEW q \in Seq(Entries), NEW p, NEW v \in Versions
  PROVE  Settled(Append(q, v), p, v)
<1>1. /\ Len(q) \in Nat
      /\ Len(Append(q, v)) = Len(q) + 1
      /\ Append(q, v)[Len(q) + 1] = v
  BY AppendEntry DEF Entries
<1>2. /\ Len(q) + 1 \in 1 .. Len(Append(q, v))
      /\ \A j \in Len(q) + 1 + 1 .. Len(Append(q, v)) : Append(q, v)[j] = Revoke
  BY <1>1
<1> QED
  BY <1>1, <1>2 DEF Settled

(* A callback runs.                                                        *)
LEMMA SettledRun ==
  ASSUME NEW q \in Seq(Entries), q # <<>>, NEW p \in Versions, NEW d \in Versions,
         Settled(q, p, d)
  PROVE  Settled(Tail(q), IF Head(q) = Revoke THEN p ELSE Head(q), d)
<1> DEFINE r == Tail(q)
           n == IF Head(q) = Revoke THEN p ELSE Head(q)
<1>1. /\ Len(q) \in Nat \ {0}
      /\ Head(q) = q[1]
      /\ Len(r) = Len(q) - 1
      /\ \A i \in 1 .. Len(q) - 1 : r[i] = q[i + 1]
  BY TailEntry
<1> HIDE DEF r
<1>2. CASE p = d /\ \A i \in 1 .. Len(q) : q[i] = Revoke
  <2>1. n = d /\ \A i \in 1 .. Len(r) : r[i] = Revoke
    BY <1>1, <1>2
  <2> QED
    BY <2>1 DEF Settled, r
<1>3. ASSUME NEW i \in 1 .. Len(q), q[i] = d, \A j \in i + 1 .. Len(q) : q[j] = Revoke
      PROVE  Settled(r, n, d)
  <2>1. CASE i = 1
    <3>1. n = d
      BY <1>1, <1>3, <2>1, RevokeAssumption
    <3>2. \A k \in 1 .. Len(r) : r[k] = Revoke
      BY <1>1, <1>3, <2>1
    <3> QED
      BY <3>1, <3>2 DEF Settled
  <2>2. CASE i # 1
    <3>1. i - 1 \in 1 .. Len(r) /\ r[i - 1] = d
      BY <1>1, <1>3, <2>2
    <3>2. \A j \in i - 1 + 1 .. Len(r) : r[j] = Revoke
      BY <1>1, <1>3, <2>2
    <3> QED
      BY <3>1, <3>2 DEF Settled
  <2> QED
    BY <2>1, <2>2
<1> QED
  BY <1>2, <1>3 DEF Settled, r

------------------------------------------------------------------------------
(* Steps that leave the holders alone.                                     *)
LEMMA StillStep ==
  ASSUME [Next]_vars, ~OnMessage, ~GiveUp,
         ~ \E a \in Auths : RunImmediate(a) \/ ValidateBySession(a)
  PROVE  UNCHANGED holders
<1> USE DEF api, broker, calls, holders
<1>1. CASE UNCHANGED vars
  BY <1>1 DEF vars
<1>2. ASSUME NEW t \in Tokens, ApiStep(t) PROVE UNCHANGED holders
  BY <1>2 DEF ApiStep, GenerateToken, ExpireToken, PurgeFind, PurgeDelete,
              PurgePublish, PurgeFails, PermitFind
<1>3. CASE PermitPublish \/ PermitAll
  BY <1>3 DEF PermitPublish, PermitAll, PublishUpdate
<1>4. ASSUME NEW a \in Auths, AuthStep(a) PROVE UNCHANGED holders
  BY <1>4 DEF AuthStep, AuthenticateChild, Authenticate, Start, GetToken,
              DelToken, ValidateFails
<1>5. ASSUME NEW s \in Sessions, CloseSession(s) PROVE UNCHANGED holders
  BY <1>5 DEF CloseSession
<1>6. CASE Disconnect \/ Connect
  BY <1>6 DEF Disconnect, Connect
<1> QED
  BY <1>1, <1>2, <1>3, <1>4, <1>5, <1>6 DEF Next

(* The store grows by the holder of a validation only, and the token and   *)
(* the kind of a stored holder stay.                                       *)
LEMMA StoredStep ==
  ASSUME TypeOK, LifeInv, [Next]_vars,
         ~ \E a \in Auths : ValidateBySession(a)
  PROVE  \A b \in stored' :
           /\ b \in child' <=> b \in child
           /\ b \in stored => token'[b] = token[b]
           /\ b \notin stored => b \notin child /\ auth[b] # "done" /\ b \in Auths
<1> USE DEF api, broker, calls, holders
<1>0. CASE UNCHANGED <<calls, stored>>
  BY <1>0
<1>1. ASSUME NEW a \in Auths, NEW s \in Sessions, NEW t \in Tokens \cup {NoToken},
             NEW l \in {"get", "relation"}, Start(a, s, t, l)
      PROVE  stored' = stored /\ child' = child /\ \A b \in stored : token'[b] = token[b]
  <2>1. a \notin stored /\ stored \subseteq Auths
    BY <1>1 DEF Start, LifeInv, TypeOK
  <2> QED
    BY <1>1, <2>1 DEF Start, TypeOK
<1>2. ASSUME NEW a \in Auths, GetToken(a) \/ ValidateFails(a)
      PROVE  UNCHANGED <<stored, child, token>>
  BY <1>2 DEF GetToken, ValidateFails
<1>3. ASSUME NEW a \in Auths, DelToken(a)
      PROVE  /\ UNCHANGED <<child, token>>
             /\ stored' \subseteq stored \cup {a}
             /\ a \notin child /\ auth[a] # "done"
  BY <1>3 DEF DelToken, AddHolder, LifeInv
<1>4. ASSUME NEW s \in Sessions, CloseSession(s)
      PROVE  UNCHANGED <<child, token>> /\ stored' \subseteq stored
  BY <1>4 DEF CloseSession, DeleteBySession
<1>5. CASE GiveUp
  BY <1>5 DEF GiveUp
<1> QED
  BY <1>0, <1>1, <1>2, <1>3, <1>4, <1>5, QuietStep

Waits(c) == \E i \in 1 .. Len(pending[c]) : pending[c][i] = Revoke

(* A holder that is revoked, or will be, stays so until the process ends.  *)
LEMMA CaughtStep ==
  ASSUME TypeOK, [Next]_vars, NEW c \in Auths, c \in revoked \/ Waits(c), ~GiveUp
  PROVE  c \in revoked' \/ Waits(c)'
<1>0. pending[c] \in Seq(Entries)
  BY DEF TypeOK, Entries
<1>1. CASE UNCHANGED holders
  BY <1>1 DEF holders, Waits
<1>2. CASE OnMessage
  <2>1. revoked \subseteq revoked'
    BY <1>2 DEF OnMessage, RevokePlayToken, UpdatePermission
  <2>2. PICK x \in Entries :
          pending'[c] = pending[c] \/ pending'[c] = Append(pending[c], x)
    BY <1>2, HeadEvent
       DEF OnMessage, RevokePlayToken, UpdatePermission, Cascade, Entries
  <2>3. CASE pending'[c] = pending[c]
    BY <2>1, <2>3 DEF Waits
  <2>4. CASE pending'[c] = Append(pending[c], x)
    <3>1. /\ Len(pending[c]) \in Nat
          /\ Len(pending'[c]) = Len(pending[c]) + 1
          /\ \A i \in 1 .. Len(pending[c]) : pending'[c][i] = pending[c][i]
      BY <1>0, <2>4, AppendEntry
    <3> QED
      BY <2>1, <3>1 DEF Waits
  <2> QED
    BY <2>2, <2>3, <2>4
<1>3. ASSUME NEW a \in Auths, RunImmediate(a) PROVE c \in revoked' \/ Waits(c)'
  <2>0. c \in revoked => c \in revoked'
    BY <1>3 DEF RunImmediate
  <2>1. CASE c # a
    BY <1>3, <2>0, <2>1 DEF RunImmediate, Waits, TypeOK
  <2>2. CASE c = a
    <3>1. pending[c] # <<>> /\ pending'[c] = Tail(pending[c])
      BY <1>3, <2>2 DEF RunImmediate, TypeOK
    <3>2. ASSUME NEW i \in 1 .. Len(pending[c]), pending[c][i] = Revoke
          PROVE  c \in revoked' \/ Waits(c)'
      <4>1. /\ Len(pending[c]) \in Nat \ {0}
            /\ Head(pending[c]) = pending[c][1]
            /\ Len(pending'[c]) = Len(pending[c]) - 1
            /\ \A k \in 1 .. Len(pending[c]) - 1 : pending'[c][k] = pending[c][k + 1]
        BY <1>0, <3>1, TailEntry
      <4>2. CASE i = 1
        BY <1>3, <2>2, <3>2, <4>1, <4>2 DEF RunImmediate
      <4>3. CASE i # 1
        <5>1. i - 1 \in 1 .. Len(pending'[c]) /\ pending'[c][i - 1] = Revoke
          BY <3>2, <4>1, <4>3
        <5> QED
          BY <5>1 DEF Waits
      <4> QED
        BY <4>2, <4>3
    <3> QED
      BY <2>0, <3>2 DEF Waits
  <2> QED
    BY <2>1, <2>2
<1>4. ASSUME NEW a \in Auths, ValidateBySession(a) PROVE c \in revoked' \/ Waits(c)'
  BY <1>4 DEF ValidateBySession, Waits
<1> QED
  BY <1>1, <1>2, <1>3, <1>4, StillStep

(* Revocation reaches the children.                                        *)
LEMMA RevokeStep ==
  TypeOK /\ LifeInv /\ StoreInv /\ ChildrenRevoked /\ [Next]_vars => ChildrenRevoked'
<1> SUFFICES ASSUME TypeOK, LifeInv, StoreInv, ChildrenRevoked, [Next]_vars,
                    NEW p \in ((stored \ child) \cap revoked)',
                    NEW c \in (stored \cap child)', token'[c] = token'[p]
             PROVE  c \in revoked' \/ \E i \in DOMAIN pending'[c] : pending'[c][i] = Revoke
    BY DEF ChildrenRevoked
<1>0. /\ TypeOK' /\ p \in Auths /\ c \in Auths
      /\ pending[c] \in Seq(Entries) /\ pending'[c] \in Seq(Entries)
  BY TypeStep DEF TypeOK, Entries
<1>1. SUFFICES c \in revoked' \/ Waits(c)'
  BY <1>0 DEF Waits
<1>2. ASSUME p \in (stored \ child) \cap revoked, c \in stored \cap child, token[c] = token[p]
      PROVE  c \in revoked \/ Waits(c)
  BY <1>0, <1>2 DEF ChildrenRevoked, Waits
<1>3. ASSUME NEW a \in Auths, ValidateBySession(a) PROVE c \in revoked' \/ Waits(c)'
  <2>1. a \notin child /\ a \notin stored /\ a \notin revoked
    BY <1>3 DEF ValidateBySession, LifeInv
  <2>2. PICK q \in Parents(a) : token' = [token EXCEPT ![a] = token[q]]
    BY <1>3 DEF ValidateBySession
  <2>3. /\ child' = child \cup {a}
        /\ stored' = stored \cup {a}
        /\ revoked' = revoked /\ pending' = pending
    BY <1>3 DEF ValidateBySession
  <2>4. p # a /\ p \in (stored \ child) \cap revoked /\ token'[p] = token[p]
    BY <1>0, <2>1, <2>2, <2>3 DEF TypeOK
  <2>5. CASE c = a
    <3>1. token'[c] = token[q]
      BY <1>0, <2>2, <2>5 DEF TypeOK
    <3>2. q \in stored \ child /\ q \notin revoked
      BY <2>2 DEF Parents
    <3> QED
      BY <2>4, <3>1, <3>2 DEF StoreInv
  <2>6. CASE c # a
    <3>1. c \in stored \cap child /\ token'[c] = token[c]
      BY <1>0, <2>2, <2>3, <2>6 DEF TypeOK
    <3> QED
      BY <1>2, <2>3, <2>4, <3>1 DEF Waits
  <2> QED
    BY <2>5, <2>6
<1>4. CASE ~ \E a \in Auths : ValidateBySession(a)
  <2>1. /\ p \notin child /\ c \in child
        /\ p \in stored => token'[p] = token[p]
        /\ p \notin stored => auth[p] # "done"
        /\ c \in stored /\ token'[c] = token[c]
    BY <1>4, StoredStep
  <2>2. CASE p \in stored /\ p \in revoked
    <3>1. c \in revoked \/ Waits(c)
      BY <1>2, <2>1, <2>2
    <3>2. ~GiveUp
      BY DEF GiveUp
    <3> QED
      BY <1>0, <3>1, <3>2, CaughtStep
  <2>3. CASE ~(p \in stored /\ p \in revoked)
    <3>1. p \notin revoked
      BY <1>0, <2>1, <2>3 DEF LifeInv
    <3>2. CASE OnMessage
      <4>1. Head(events).kind = "revoke" /\ p \in Named(Head(events))
        BY <3>1, <3>2 DEF OnMessage, RevokePlayToken, UpdatePermission
      <4>2. p \in stored
        BY <3>2, <4>1, HeadEvent, NamedStored DEF OnMessage
      <4>3. c \in Children(Named(Head(events)))
        BY <2>1, <4>1, <4>2 DEF Children
      <4>4. pending'[c] = Append(pending[c], Revoke)
        BY <1>0, <3>2, <4>1, <4>3 DEF OnMessage, RevokePlayToken, Cascade
      <4>5. /\ Len(pending[c]) \in Nat
            /\ Len(pending'[c]) = Len(pending[c]) + 1
            /\ pending'[c][Len(pending[c]) + 1] = Revoke
        BY <1>0, <4>4, AppendEntry DEF Entries
      <4> QED
        BY <4>5 DEF Waits
    <3>3. ASSUME NEW a \in Auths, RunImmediate(a) PROVE FALSE
      <4>1. a \in child
        BY <3>3 DEF RunImmediate, LifeInv
      <4> QED
        BY <2>1, <3>1, <3>3, <4>1 DEF RunImmediate
    <3>4. CASE GiveUp
      BY <3>4 DEF GiveUp
    <3> QED
      BY <1>4, <3>1, <3>2, <3>3, <3>4, StillStep DEF holders
  <2> QED
    BY <2>2, <2>3
<1> QED
  BY <1>3, <1>4

------------------------------------------------------------------------------
(* The last update stands.                                                 *)
LEMMA SettleStep ==
  TypeOK /\ LifeInv /\ SettleInv /\ [Next]_vars => SettleInv'
<1> SUFFICES ASSUME TypeOK, LifeInv, SettleInv, [Next]_vars, NEW b \in stored',
                    b \notin overtaken'
             PROVE  Settled(pending'[b], perm'[b], due'[b])
    BY DEF SettleInv
<1>0. /\ TypeOK' /\ b \in Auths
      /\ pending[b] \in Seq(Entries)
      /\ perm[b] \in Versions /\ due[b] \in Versions
  BY TypeStep DEF TypeOK, Entries
<1>1. ASSUME NEW q, q = <<>>, NEW v PROVE Settled(q, v, v)
  BY <1>1 DEF Settled
<1>2. ASSUME NEW a \in Auths, ValidateBySession(a)
      PROVE  Settled(pending'[b], perm'[b], due'[b])
  <2>1. CASE b = a
    <3>1. perm'[b] = due'[b]
      BY <1>2, <2>1 DEF ValidateBySession, TypeOK
    <3>2. pending'[b] = <<>>
      BY <1>2, <2>1 DEF ValidateBySession, LifeInv
    <3> QED
      BY <1>1, <3>1, <3>2
  <2>2. CASE b # a
    <3>1. b \in stored \ overtaken /\ UNCHANGED <<pending[b], perm[b], due[b]>>
      BY <1>0, <1>2, <2>2 DEF ValidateBySession, TypeOK
    <3> QED
      BY <3>1 DEF SettleInv
  <2> QED
    BY <2>1, <2>2
<1>3. CASE ~ \E a \in Auths : ValidateBySession(a)
  <2>1. CASE b \notin stored
    <3>1. b \notin child /\ auth[b] # "done"
      BY <1>3, <2>1, StoredStep
    <3>2. pending[b] = <<>> /\ perm[b] = due[b]
      BY <1>0, <3>1 DEF LifeInv
    <3>3. CASE UNCHANGED holders
      BY <1>1, <3>2, <3>3 DEF holders
    <3>4. CASE OnMessage
      BY <2>1, <3>4 DEF OnMessage
    <3>5. CASE GiveUp
      BY <3>5 DEF GiveUp
    <3>6. ASSUME NEW a \in Auths, RunImmediate(a) PROVE FALSE
      BY <2>1, <3>6 DEF RunImmediate
    <3> QED
      BY <1>3, <3>3, <3>4, <3>5, <3>6, StillStep
  <2>2. CASE b \in stored
    <3>1. ASSUME overtaken' = overtaken PROVE Settled(pending[b], perm[b], due[b])
      BY <2>2, <3>1 DEF SettleInv
    <3>2. CASE UNCHANGED holders
      BY <3>1, <3>2 DEF holders
    <3>3. CASE GiveUp
      BY <3>3 DEF GiveUp
    <3>4. ASSUME NEW a \in Auths, RunImmediate(a)
          PROVE  Settled(pending'[b], perm'[b], due'[b])
      <4>0. Settled(pending[b], perm[b], due[b])
        BY <3>1, <3>4 DEF RunImmediate
      <4>1. CASE a # b
        BY <1>0, <3>4, <4>0, <4>1 DEF RunImmediate, TypeOK
      <4>2. CASE a = b
        <5>1. /\ pending[b] # <<>> /\ pending'[b] = Tail(pending[b])
              /\ perm'[b] = IF Head(pending[b]) = Revoke THEN perm[b] ELSE Head(pending[b])
              /\ due'[b] = due[b]
          BY <1>0, <3>4, <4>2 DEF RunImmediate, TypeOK
        <5> QED
          BY <1>0, <4>0, <5>1, SettledRun
      <4> QED
        BY <4>1, <4>2
    <3>5. CASE OnMessage
      <4> DEFINE e == Head(events)
                 H == Named(e)
      <4>1. e \in Events /\ e.version \in Versions
        BY <3>5, HeadEvent DEF OnMessage
      <4>2. CASE e.kind = "revoke"
        <5>1. perm'[b] = perm[b] /\ due'[b] = due[b]
          BY <3>5, <4>2 DEF OnMessage, RevokePlayToken
        <5>2. pending'[b] = pending[b] \/ pending'[b] = Append(pending[b], Revoke)
          BY <1>0, <3>5, <4>2 DEF OnMessage, RevokePlayToken, Cascade
        <5>3. Settled(pending[b], perm[b], due[b])
          BY <3>1, <3>5, <4>2 DEF OnMessage, RevokePlayToken
        <5> QED
          BY <1>0, <5>1, <5>2, <5>3, SettledRevoke
      <4>3. CASE e.kind # "revoke"
        <5>1. /\ perm'[b] = IF b \in H THEN e.version ELSE perm[b]
              /\ due'[b] = IF b \in H \cup Children(H) THEN e.version ELSE due[b]
              /\ pending'[b] = IF b \in Children(H) THEN Append(pending[b], e.version)
                                                    ELSE pending[b]
          BY <1>0, <3>5, <4>3 DEF OnMessage, UpdatePermission, Cascade
        <5>2. CASE b \in Children(H)
          BY <1>0, <4>1, <5>1, <5>2, SettledUpdate
        <5>3. overtaken' = (overtaken \ (H \cup Children(H)))
                             \cup {a \in H \ Children(H) : Waiting(a)}
          BY <3>5, <4>3 DEF OnMessage, UpdatePermission
        <5>4. CASE b \notin Children(H) /\ b \notin H
          <6>1. b \notin overtaken
            BY <5>3, <5>4
          <6> QED
            BY <2>2, <5>1, <5>4, <6>1 DEF SettleInv
        <5>5. CASE b \notin Children(H) /\ b \in H
          <6>1. ~Waiting(b)
            BY <5>3, <5>5
          <6>2. \A i \in 1 .. Len(pending[b]) : pending[b][i] = Revoke
            BY <1>0, <6>1 DEF Waiting
          <6> QED
            BY <5>1, <5>5, <6>2 DEF Settled
        <5> QED
          BY <5>2, <5>4, <5>5
      <4> QED
        BY <4>2, <4>3
    <3> QED
      BY <1>3, <3>2, <3>3, <3>4, <3>5, StillStep
  <2> QED
    BY <2>1, <2>2
<1> QED
  BY <1>2, <1>3

------------------------------------------------------------------------------
(* Holders that a handled purge of the token t does not leave in use.      *)
Accounted(a, t) ==
  \/ a \in revoked
  \/ Waits(a)
  \/ owner[a] \notin open
  \/ \E p \in missed : token[p] = t /\ owner[p] = owner[a]

(* A purged token is not read any more, and once its event is handled each *)
(* call that has taken it is accounted for, before its holder is stored    *)
(* and also if it never is.                                                *)
HandledInv ==
  \A t \in Tokens :
    /\ purge[t] \in {"deleted", "done"} => t \notin redis
    /\ purge[t] = "done" /\ ~Awaited(t) => \A a \in Affected(t) : Accounted(a, t)

(* Only holders are revoked by token, and only calls that have taken their *)
(* token are missed.                                                       *)
MissedInv ==
  /\ \A i \in 1 .. Len(events) : events[i].kind = "revoke" => events[i].scope = "token"
  /\ \A p \in missed : auth[p] \in {"del", "done", "failed"}

(* What a step may do to the queue of events.                              *)
LEMMA EventsStep ==
  ASSUME TypeOK, [Next]_vars, ~OnMessage, ~Disconnect
  PROVE  \/ UNCHANGED events
         \/ \E e \in Events :
              /\ events' = Append(events, e)
              /\ e.kind = "revoke" => e.scope = "token"
<1> USE DEF api, broker, calls, holders
<1>1. CASE UNCHANGED vars
  BY <1>1 DEF vars
<1>2. ASSUME NEW t \in Tokens, ApiStep(t), events' # events
      PROVE  /\ Event("revoke", "token", t, 0) \in Events
             /\ events' = Append(events, Event("revoke", "token", t, 0))
             /\ Event("revoke", "token", t, 0).scope = "token"
  <2>1. PurgePublish(t)
    BY <1>2 DEF ApiStep, GenerateToken, ExpireToken, PurgeFind, PurgeDelete,
                PurgeFails, PermitFind
  <2>2. Event("revoke", "token", t, 0) \in Events
    BY MaxUpdatesAssumption DEF Event, Events, Versions
  <2> QED
    BY <1>2, <2>1, <2>2 DEF PurgePublish, Event
<1>3. ASSUME NEW scope \in {"token", "play", "childPlay", "user"},
             NEW t \in Tokens \cup {NoToken}, PublishUpdate(scope, t), events' # events
      PROVE  /\ Event("update", scope, t, version + 1) \in Events
             /\ events' = Append(events, Event("update", scope, t, version + 1))
             /\ Event("update", scope, t, version + 1).kind # "revoke"
  <2>1. version + 1 \in Versions
    BY <1>3, MaxUpdatesAssumption DEF PublishUpdate, TypeOK, Versions
  <2> QED
    BY <1>3, <2>1 DEF PublishUpdate, Event, Events
<1>4. CASE PermitPublish
  BY <1>3, <1>4 DEF PermitPublish, TypeOK
<1>5. CASE PermitAll
  BY <1>3, <1>5 DEF PermitAll
<1>6. ASSUME NEW a \in Auths, AuthStep(a) PROVE UNCHANGED events
  BY <1>6 DEF AuthStep, AuthenticateChild, Authenticate, Start, GetToken,
              DelToken, ValidateBySession, ValidateFails, RunImmediate
<1>7. CASE (\E s \in Sessions : CloseSession(s)) \/ Connect \/ GiveUp
  BY <1>7 DEF CloseSession, Connect, GiveUp
<1> QED
  BY <1>1, <1>2, <1>4, <1>5, <1>6, <1>7 DEF Next

(* A call that has its token keeps it, sessions are not opened again, and  *)
(* what is missed is not forgotten.                                        *)
LEMMA TakenStep ==
  ASSUME TypeOK, [Next]_vars
  PROVE  /\ \A a \in Auths : auth[a] \in {"del", "done", "failed"} =>
              /\ auth'[a] \in {"del", "done", "failed"}
              /\ token'[a] = token[a]
              /\ owner'[a] = owner[a]
         /\ open' \subseteq open
         /\ missed \subseteq missed'
         /\ \A a \in missed' \ missed : auth[a] \in {"del", "done"}
<1> USE DEF api, broker, calls, holders
<1>1. CASE UNCHANGED vars
  BY <1>1 DEF vars
<1>2. ASSUME NEW t \in Tokens, ApiStep(t)
      PROVE  /\ UNCHANGED calls /\ missed \subseteq missed'
             /\ \A a \in missed' \ missed : auth[a] \in {"del", "done"}
  BY <1>2 DEF ApiStep, GenerateToken, ExpireToken, PurgeFind, PurgeDelete,
              PurgePublish, PurgeFails, PermitFind, Affected
<1>3. CASE PermitPublish \/ PermitAll
  BY <1>3 DEF PermitPublish, PermitAll, PublishUpdate
<1>4. ASSUME NEW a \in Auths, AuthStep(a)
      PROVE  /\ UNCHANGED <<open, missed>>
             /\ \A b \in Auths : auth[b] \in {"del", "done", "failed"} =>
                  /\ auth'[b] \in {"del", "done", "failed"}
                  /\ token'[b] = token[b]
                  /\ owner'[b] = owner[b]
  <2> USE DEF TypeOK
  <2>1. CASE \E s \in Sessions : AuthenticateChild(a, s) \/ \E t \in Tokens : Authenticate(a, s, t)
    BY <2>1 DEF AuthenticateChild, Authenticate, Start
  <2>2. CASE GetToken(a) \/ ValidateFails(a)
    BY <2>2 DEF GetToken, ValidateFails, Goto
  <2>3. CASE DelToken(a)
    BY <2>3 DEF DelToken, Goto
  <2>4. CASE ValidateBySession(a)
    BY <2>4 DEF ValidateBySession, Goto
  <2>5. CASE RunImmediate(a)
    BY <2>5 DEF RunImmediate
  <2> QED
    BY <1>4, <2>1, <2>2, <2>3, <2>4, <2>5 DEF AuthStep
<1>5. ASSUME NEW s \in Sessions, CloseSession(s)
      PROVE  UNCHANGED <<auth, token, owner, missed>> /\ open' \subseteq open
  BY <1>5 DEF CloseSession
<1>6. CASE OnMessage
  BY <1>6 DEF OnMessage, Affected
<1>7. CASE Disconnect
  BY <1>7 DEF Disconnect, Affected
<1>8. CASE Connect
  BY <1>8 DEF Connect
<1>9. CASE GiveUp
  BY <1>9 DEF GiveUp, UnderWay, TypeOK
<1> QED
  BY <1>1, <1>2, <1>3, <1>4, <1>5, <1>6, <1>7, <1>8, <1>9 DEF Next

(* Revocations name tokens, and only calls with a token are missed.        *)
LEMMA MissedStep == TypeOK /\ MissedInv /\ [Next]_vars => MissedInv'
<1> SUFFICES ASSUME TypeOK, MissedInv, [Next]_vars PROVE MissedInv'
    OBVIOUS
<1> DEFINE ByToken(q) == \A i \in 1 .. Len(q) : q[i].kind = "revoke" => q[i].scope = "token"
<1>1. ByToken(events')
  <2>0. events \in Seq(Events) /\ ByToken(events)
    BY DEF TypeOK, MissedInv
  <2>1. CASE OnMessage
    <3>1. events # <<>> /\ events' = Tail(events)
      BY <2>1 DEF OnMessage
    <3>2. /\ Len(events) \in Nat \ {0}
          /\ Len(events') = Len(events) - 1
          /\ \A i \in 1 .. Len(events) - 1 : events'[i] = events[i + 1]
      BY <2>0, <3>1
    <3> QED
      BY <2>0, <3>2
  <2>2. CASE Disconnect
    BY <2>2 DEF Disconnect
  <2>3. ASSUME NEW e \in Events, events' = Append(events, e),
               e.kind = "revoke" => e.scope = "token"
        PROVE  ByToken(events')
    <3>1. /\ Len(events) \in Nat
          /\ Len(events') = Len(events) + 1
          /\ events'[Len(events) + 1] = e
          /\ \A i \in 1 .. Len(events) : events'[i] = events[i]
      BY <2>0, <2>3
    <3> QED
      BY <2>0, <2>3, <3>1
  <2> QED
    BY <2>0, <2>1, <2>2, <2>3, EventsStep
<1>2. ASSUME NEW p \in missed' PROVE auth'[p] \in {"del", "done", "failed"}
  <2>1. p \in Auths
    BY <1>2, TypeStep DEF TypeOK
  <2>2. auth[p] \in {"del", "done", "failed"}
    BY <1>2, TakenStep DEF MissedInv
  <2> QED
    BY <2>1, <2>2, TakenStep
<1> QED
  BY <1>1, <1>2 DEF MissedInv

(* A call that is accounted for stays so.                                  *)
LEMMA AccountedStep ==
  ASSUME TypeOK, MissedInv, [Next]_vars, NEW t \in Tokens, NEW a \in Auths,
         auth[a] \in {"del", "done", "failed"}, Accounted(a, t)
  PROVE  Accounted(a, t)'
<1>1. owner'[a] = owner[a] /\ open' \subseteq open
  BY TakenStep
<1>2. CASE owner[a] \notin open
  BY <1>1, <1>2 DEF Accounted
<1>3. CASE \E p \in missed : token[p] = t /\ owner[p] = owner[a]
  <2>1. PICK p \in missed : token[p] = t /\ owner[p] = owner[a]
    BY <1>3
  <2>2. p \in Auths /\ auth[p] \in {"del", "done", "failed"}
    BY DEF TypeOK, MissedInv
  <2>3. p \in missed' /\ token'[p] = token[p] /\ owner'[p] = owner[p]
    BY <2>2, TakenStep
  <2> QED
    BY <1>1, <2>1, <2>3 DEF Accounted
<1>4. CASE a \in revoked \/ Waits(a)
  <2>1. CASE GiveUp
    BY <1>1, <2>1 DEF GiveUp, Accounted
  <2>2. CASE ~GiveUp
    BY <1>4, <2>2, CaughtStep DEF Accounted
  <2> QED
    BY <2>1, <2>2
<1> QED
  BY <1>2, <1>3, <1>4 DEF Accounted

(* Who takes the token t in a step: a call that finds it in Redis, or a    *)
(* child by a parent that has it.                                          *)
LEMMA AffectedStep ==
  ASSUME TypeOK, [Next]_vars, NEW t \in Tokens, NEW a \in Affected(t)', a \notin Affected(t)
  PROVE  \/ t \in redis
         \/ /\ ValidateBySession(a)
            /\ \E p \in Parents(a) : token[p] = t
<1> USE DEF api, broker, calls, holders, Affected
<1>0. a \in Auths /\ token'[a] = t /\ auth'[a] \in {"del", "done"}
  OBVIOUS
<1>1. ASSUME UNCHANGED <<auth, token>> PROVE FALSE
  BY <1>0, <1>1
<1>2. ASSUME NEW u \in Tokens, ApiStep(u) PROVE UNCHANGED <<auth, token>>
  BY <1>2 DEF ApiStep, GenerateToken, ExpireToken, PurgeFind, PurgeDelete,
              PurgePublish, PurgeFails, PermitFind
<1>3. CASE PermitPublish \/ PermitAll
  BY <1>1, <1>3 DEF PermitPublish, PermitAll, PublishUpdate
<1>4. ASSUME NEW b \in Auths, AuthStep(b)
      PROVE  \/ t \in redis
             \/ ValidateBySession(a) /\ \E p \in Parents(a) : token[p] = t
  <2> USE DEF TypeOK
  <2>1. CASE \E s \in Sessions : AuthenticateChild(b, s) \/ \E u \in Tokens : Authenticate(b, s, u)
    BY <1>0, <2>1 DEF AuthenticateChild, Authenticate, Start
  <2>2. CASE GetToken(b)
    BY <1>0, <2>2 DEF GetToken, Goto
  <2>3. CASE DelToken(b)
    BY <1>0, <2>3 DEF DelToken, Goto
  <2>4. CASE ValidateBySession(b)
    <3>1. PICK p \in Parents(b) : token' = [token EXCEPT ![b] = token[p]]
      BY <2>4 DEF ValidateBySession
    <3>2. auth' = [auth EXCEPT ![b] = "done"]
      BY <2>4 DEF ValidateBySession, Goto
    <3>3. a = b
      BY <1>0, <3>1, <3>2
    <3> QED
      BY <1>0, <2>4, <3>1, <3>3
  <2>5. CASE ValidateFails(b)
    BY <1>0, <2>5 DEF ValidateFails, Goto
  <2>6. CASE RunImmediate(b)
    BY <1>1, <2>6 DEF RunImmediate
  <2> QED
    BY <1>4, <2>1, <2>2, <2>3, <2>4, <2>5, <2>6 DEF AuthStep
<1>5. ASSUME NEW s \in Sessions, CloseSession(s) PROVE FALSE
  BY <1>1, <1>5 DEF CloseSession
<1>6. CASE OnMessage \/ Disconnect \/ Connect
  BY <1>1, <1>6 DEF OnMessage, Disconnect, Connect
<1>7. CASE GiveUp
  BY <1>0, <1>7 DEF GiveUp, UnderWay
<1>8. CASE UNCHANGED vars
  BY <1>1, <1>8 DEF vars
<1> QED
  BY <1>1, <1>2, <1>3, <1>4, <1>5, <1>6, <1>7, <1>8 DEF Next

(* How a purge gets past its event: it was so before, the event is handled *)
(* or lost, or there is no queue for it.                                   *)
LEMMA PastStep ==
  ASSUME TypeOK, [Next]_vars, NEW t \in Tokens, purge'[t] = "done", ~Awaited(t)'
  PROVE  \/ purge[t] = "done" /\ ~Awaited(t)
         \/ OnMessage
         \/ Disconnect
         \/ PurgePublish(t) /\ ~connected
<1> USE DEF api, broker, calls, holders
<1> SUFFICES ASSUME ~OnMessage, ~Disconnect, ~(PurgePublish(t) /\ ~connected)
             PROVE  purge[t] = "done" /\ ~Awaited(t)
    OBVIOUS
<1>0. events \in Seq(Events)
  BY DEF TypeOK
<1>1. ~Awaited(t)
  <2>1. CASE UNCHANGED events
    BY <2>1 DEF Awaited
  <2>2. ASSUME NEW e \in Events, events' = Append(events, e) PROVE ~Awaited(t)
    <3>1. /\ DOMAIN events \subseteq DOMAIN events'
          /\ \A i \in DOMAIN events : events'[i] = events[i]
      BY <1>0, <2>2
    <3> QED
      BY <3>1 DEF Awaited
  <2> QED
    BY <2>1, <2>2, EventsStep
<1>2. ASSUME purge[t] # "done" PROVE FALSE
  <2>1. PurgePublish(t)
    <3>1. ASSUME NEW u \in Tokens, ApiStep(u), ~PurgePublish(t) PROVE FALSE
      BY <1>2, <3>1 DEF ApiStep, GenerateToken, ExpireToken, PurgeFind, PurgeDelete,
                  PurgePublish, PurgeFails, PermitFind, Purging, TypeOK
    <3>2. CASE PermitPublish \/ PermitAll
      BY <1>2, <3>2 DEF PermitPublish, PermitAll, PublishUpdate
    <3>3. ASSUME NEW a \in Auths, AuthStep(a) PROVE FALSE
      BY <1>2, <3>3 DEF AuthStep, AuthenticateChild, Authenticate, Start, GetToken,
                  DelToken, ValidateBySession, ValidateFails, RunImmediate
    <3>4. CASE (\E s \in Sessions : CloseSession(s)) \/ Connect \/ GiveUp
      BY <1>2, <3>4 DEF CloseSession, Connect, GiveUp
    <3>5. CASE UNCHANGED vars
      BY <1>2, <3>5 DEF vars
    <3> QED
      BY <3>1, <3>2, <3>3, <3>4, <3>5 DEF Next
  <2> DEFINE e == Event("revoke", "token", t, 0)
  <2>2. events' = Append(events, e)
    BY <2>1 DEF PurgePublish
  <2>3. Len(events) + 1 \in DOMAIN events' /\ events'[Len(events) + 1] = e
    BY <1>0, <2>2
  <2>4. e.kind = "revoke" /\ e.token = t
    BY DEF Event
  <2> QED
    BY <2>3, <2>4 DEF Awaited
<1> QED
  BY <1>1, <1>2

(* Each way leaves every call that has taken the token accounted for.      *)
LEMMA HandledStep ==
  TypeOK /\ LifeInv /\ StoreInv /\ MissedInv /\ HandledInv /\ [Next]_vars
    => HandledInv'
<1> SUFFICES ASSUME TypeOK, LifeInv, StoreInv, MissedInv, HandledInv, [Next]_vars,
                    NEW t \in Tokens
             PROVE  /\ purge'[t] \in {"deleted", "done"} => t \notin redis'
                    /\ purge'[t] = "done" /\ ~Awaited(t)' =>
                         \A a \in Affected(t)' : Accounted(a, t)'
    BY DEF HandledInv
<1> USE DEF api, broker, calls, holders
<1>1. ASSUME purge'[t] \in {"deleted", "done"} PROVE t \notin redis'
  <2>1. ASSUME NEW u \in Tokens, ApiStep(u) PROVE t \notin redis'
    BY <1>1, <2>1 DEF ApiStep, GenerateToken, ExpireToken, PurgeFind, PurgeDelete,
                PurgePublish, PurgeFails, PermitFind, Purging, TypeOK, HandledInv
  <2>2. CASE PermitPublish \/ PermitAll
    BY <1>1, <2>2 DEF PermitPublish, PermitAll, PublishUpdate, HandledInv
  <2>3. ASSUME NEW a \in Auths, AuthStep(a) PROVE t \notin redis'
    BY <1>1, <2>3 DEF AuthStep, AuthenticateChild, Authenticate, Start, GetToken,
                DelToken, ValidateBySession, ValidateFails, RunImmediate, HandledInv
  <2>4. ASSUME NEW s \in Sessions, CloseSession(s) PROVE t \notin redis'
    BY <1>1, <2>4 DEF CloseSession, HandledInv
  <2>5. CASE OnMessage \/ Disconnect \/ Connect \/ GiveUp
    BY <1>1, <2>5 DEF OnMessage, Disconnect, Connect, GiveUp, HandledInv
  <2>6. CASE UNCHANGED vars
    BY <1>1, <2>6 DEF vars, HandledInv
  <2> QED
    BY <2>1, <2>2, <2>3, <2>4, <2>5, <2>6 DEF Next
<1>2. ASSUME purge'[t] = "done", ~Awaited(t)', NEW a \in Affected(t)'
      PROVE  Accounted(a, t)'
  <2>0. a \in Auths
    BY <1>2 DEF Affected
  <2>1. CASE purge[t] = "done" /\ ~Awaited(t)
    <3>1. CASE a \in Affected(t)
      <4>1. Accounted(a, t) /\ auth[a] \in {"del", "done", "failed"}
        BY <2>1, <3>1 DEF HandledInv, Affected
      <4> QED
        BY <2>0, <4>1, AccountedStep
    <3>2. CASE a \notin Affected(t)
      <4>1. ValidateBySession(a)
        BY <1>2, <2>1, <3>2, AffectedStep DEF HandledInv
      <4>2. PICK p \in Parents(a) : token[p] = t
        BY <1>2, <2>1, <3>2, AffectedStep DEF HandledInv
      <4>3. p \in Auths /\ p \notin child /\ auth[p] = "done" /\ p \notin revoked
        BY <4>2 DEF Parents, LifeInv, TypeOK
      <4>4. ~Waits(p)
        BY <4>3 DEF LifeInv, Waits
      <4>5. Accounted(p, t)
        BY <2>1, <4>2, <4>3 DEF HandledInv, Affected
      <4>6. owner[p] = owner[a]
        BY <4>2 DEF Parents
      <4>7. owner[a] \notin open \/ \E q \in missed : token[q] = t /\ owner[q] = owner[a]
        BY <4>3, <4>4, <4>5, <4>6 DEF Accounted
      <4>8. UNCHANGED <<owner, open, missed>>
        BY <4>1 DEF ValidateBySession
      <4>9. \A q \in missed : token'[q] = token[q]
        BY TakenStep DEF MissedInv, TypeOK
      <4> QED
        BY <4>7, <4>8, <4>9 DEF Accounted
    <3> QED
      BY <3>1, <3>2
  <2>2. ASSUME UNCHANGED calls, Affected(t) \subseteq missed' \/ a \in missed' PROVE Accounted(a, t)'
    BY <1>2, <2>2 DEF Affected, Accounted
  <2>3. CASE OnMessage /\ ~(purge[t] = "done" /\ ~Awaited(t))
    <3>1. /\ UNCHANGED <<calls, stored>> /\ purge[t] = "done" /\ Awaited(t)
          /\ a \in Affected(t)
      BY <1>2, <2>3 DEF OnMessage, Affected
    <3> DEFINE e == Head(events)
    <3>2. /\ events \in Seq(Events) /\ events # <<>> /\ events' = Tail(events)
      BY <2>3 DEF OnMessage, TypeOK
    <3>3. /\ Len(events) \in Nat \ {0}
          /\ e = events[1]
          /\ DOMAIN events = 1 .. Len(events)
          /\ DOMAIN events' = 1 .. Len(events) - 1
          /\ \A i \in 1 .. Len(events) - 1 : events'[i] = events[i + 1]
      BY <3>2
    <3>4. PICK i \in 1 .. Len(events) : events[i].kind = "revoke" /\ events[i].token = t
      BY <3>1, <3>3 DEF Awaited
    <3>5. i = 1
      <4>1. SUFFICES ASSUME i # 1 PROVE FALSE
        OBVIOUS
      <4>2. i - 1 \in DOMAIN events' /\ events'[i - 1] = events[i]
        BY <3>3, <4>1
      <4> QED
        BY <1>2, <3>4, <4>2 DEF Awaited
    <3>6. e.kind = "revoke" /\ e.token = t /\ e.scope = "token"
      BY <3>3, <3>4, <3>5 DEF MissedInv
    <3>7. /\ revoked' = revoked \cup Named(e)
          /\ Cascade(Children(Named(e)), Revoke)
          /\ missed' = missed \cup (Affected(t) \ stored)
      BY <2>3, <3>6 DEF OnMessage, RevokePlayToken
    <3>8. Named(e) = {b \in stored \ child : token[b] = t}
      BY <3>6 DEF Named
    <3>9. CASE a \notin stored
      BY <2>2, <3>1, <3>7, <3>9
    <3>10. CASE a \in stored \ child
      <4>1. a \in revoked'
        BY <3>1, <3>7, <3>8, <3>10 DEF Affected
      <4> QED
        BY <4>1 DEF Accounted
    <3>11. CASE a \in stored \cap child
      <4>1. PICK p \in stored \ child : token[p] = token[a]
        BY <3>11 DEF StoreInv
      <4>2. a \in Children(Named(e))
        BY <3>1, <3>8, <3>11, <4>1 DEF Children, Affected
      <4>3. pending'[a] = Append(pending[a], Revoke) /\ pending[a] \in Seq(Entries)
        BY <2>0, <3>7, <4>2 DEF Cascade, TypeOK, Entries
      <4>4. /\ Len(pending[a]) \in Nat
            /\ Len(pending'[a]) = Len(pending[a]) + 1
            /\ pending'[a][Len(pending[a]) + 1] = Revoke
        BY <4>3, AppendEntry DEF Entries
      <4>5. Waits(a)'
        BY <4>4 DEF Waits
      <4> QED
        BY <4>5 DEF Accounted
    <3> QED
      BY <3>9, <3>10, <3>11
  <2>4. CASE Disconnect /\ ~(purge[t] = "done" /\ ~Awaited(t))
    <3>1. UNCHANGED calls /\ purge[t] = "done" /\ Awaited(t)
      BY <1>2, <2>4 DEF Disconnect
    <3>2. PICK i \in DOMAIN events : events[i].kind = "revoke" /\ events[i].token = t
      BY <3>1 DEF Awaited
    <3>3. Affected(t) \subseteq missed'
      BY <2>4, <3>2 DEF Disconnect
    <3> QED
      BY <2>2, <3>1, <3>3
  <2>5. CASE PurgePublish(t) /\ ~connected
    <3>1. UNCHANGED calls /\ Affected(t) \subseteq missed'
      BY <2>5 DEF PurgePublish
    <3> QED
      BY <2>2, <3>1
  <2> QED
    BY <1>2, <2>1, <2>3, <2>4, <2>5, PastStep
<1> QED
  BY <1>1, <1>2

------------------------------------------------------------------------------
IInv ==
  /\ TypeOK
  /\ LifeInv
  /\ UsedInv
  /\ StoreInv
  /\ LateInv
  /\ ClosedSessionSwept
  /\ ChildrenRevoked

LEMMA InitIInv == Init => IInv
<1> SUFFICES ASSUME Init PROVE IInv
    OBVIOUS
<1>1. TypeOK
  BY MaxUpdatesAssumption DEF Init, TypeOK, Versions
<1>2. LifeInv /\ UsedInv /\ StoreInv
  BY DEF Init, LifeInv, UsedInv, StoreInv
<1>3. LateInv /\ ClosedSessionSwept /\ ChildrenRevoked
  BY DEF Init, LateInv, UnderWay, ClosedSessionSwept, ChildrenRevoked
<1> QED
  BY <1>1, <1>2, <1>3 DEF IInv

(* The inductive invariant holds in every behaviour.                       *)
THEOREM Inductive == Spec => []IInv
<1>1. IInv /\ [Next]_vars => IInv'
  BY TypeStep, LifeStep, UsedStep, StoreStep, SweepStep, RevokeStep DEF IInv
<1> QED
  BY <1>1, InitIInv, PTL DEF Spec

(* The state keeps its type (all of PlayTokens).                           *)
THEOREM TypeCorrect == Spec => []TypeOK
<1>1. IInv => TypeOK
  BY DEF IInv
<1> QED
  BY <1>1, Inductive, PTL

(* Whatever flows are validated while a token is revoked, no child in the  *)
(* store escapes the revocation of its parent (_revokePlayToken).          *)
THEOREM RevocationReaches == Spec => []ChildrenRevoked
<1>1. IInv => ChildrenRevoked
  BY DEF IInv
<1> QED
  BY <1>1, Inductive, PTL

(* Of a closed session only late validations are in the store (validate,   *)
(* deleteBySession).                                                       *)
THEOREM SessionsSwept == Spec => []ClosedSessionSwept
<1>1. IInv => ClosedSessionSwept
  BY DEF IInv
<1> QED
  BY <1>1, Inductive, PTL

(* No flow reads a token that another one was authenticated by             *)
(* (_getTokenFromRedis).                                                   *)
THEOREM TokenUsedOnce == Spec => UsedOnce
<1> DEFINE Fresh == \A a \in Auths : auth[a] = "get" /\ auth'[a] = "del" =>
                      \A b \in Auths : auth[b] = "done" => token[b] # token[a]
<1>1. ASSUME IInv, Next PROVE Fresh
  <2> SUFFICES ASSUME NEW a \in Auths, auth[a] = "get", auth'[a] = "del",
                      NEW b \in Auths, auth[b] = "done"
               PROVE  token[b] # token[a]
    OBVIOUS
  <2>1. auth \in [Auths -> {"idle", "get", "del", "relation", "done", "failed"}]
    BY <1>1 DEF IInv, TypeOK
  <2>2. GetToken(a)
    <3> USE DEF api, broker, calls, holders
    <3>1. ASSUME NEW t \in Tokens, ApiStep(t) PROVE FALSE
      BY <3>1 DEF ApiStep, GenerateToken, ExpireToken, PurgeFind, PurgeDelete,
                  PurgePublish, PurgeFails, PermitFind
    <3>2. CASE PermitPublish \/ PermitAll
      BY <3>2 DEF PermitPublish, PermitAll, PublishUpdate
    <3>3. ASSUME NEW c \in Auths, AuthStep(c), ~GetToken(a) PROVE FALSE
      BY <2>1, <3>3 DEF AuthStep, AuthenticateChild, Authenticate, Start, GetToken,
                        DelToken, ValidateBySession, ValidateFails, RunImmediate, Goto
    <3>4. ASSUME NEW s \in Sessions, CloseSession(s) PROVE FALSE
      BY <3>4 DEF CloseSession
    <3>5. CASE OnMessage \/ Disconnect \/ Connect
      BY <3>5 DEF OnMessage, Disconnect, Connect
    <3>6. CASE GiveUp
      BY <2>1, <3>6 DEF GiveUp, UnderWay
    <3> QED
      BY <1>1, <3>1, <3>2, <3>3, <3>4, <3>5, <3>6 DEF Next
  <2>3. token[a] \in redis
    BY <2>1, <2>2 DEF GetToken, Goto
  <2> QED
    BY <1>1, <2>3 DEF IInv, UsedInv
<1>2. IInv /\ [Next]_vars => [Fresh]_vars
  BY <1>1
<1> QED
  BY <1>2, Inductive, PTL DEF Spec, UsedOnce

(* For any number of holders and updates: updates, revocations, new        *)
(* children and callbacks in any order leave each holder with the          *)
(* permission of the last update that named it or its parent               *)
(* (_updatePermission), but for the children whose own update overtook the *)
(* callback of an earlier one of their parent.                             *)
THEOREM UpdatesSettle == Spec => []LastUpdateStands
<1> DEFINE J == IInv /\ SettleInv
<1>1. Init => J
  BY InitIInv DEF Init, SettleInv
<1>2. J /\ [Next]_vars => J'
  BY TypeStep, LifeStep, UsedStep, StoreStep, SweepStep, RevokeStep, SettleStep DEF IInv
<1>3. J => LastUpdateStands
  <2> SUFFICES ASSUME J, NEW a \in stored \ overtaken, pending[a] = <<>>
               PROVE  perm[a] = due[a]
    BY DEF LastUpdateStands
  <2> QED
    BY DEF SettleInv, Settled
<1> QED
  BY <1>1, <1>2, <1>3, PTL DEF Spec

(* At every moment of a purge that was not rejected, each flow that may    *)
(* still use the token is accounted for (deleteToken, validate,            *)
(* _revokePlayToken): the event or a callback that revokes its holder is   *)
(* still to come, or the event passed by it or its parent.                 *)
THEOREM PurgesAccounted == Spec => []PurgeAccounted
<1> DEFINE J == IInv /\ MissedInv /\ HandledInv
<1>1. Init => J
  BY InitIInv DEF Init, MissedInv, HandledInv
<1>2. J /\ [Next]_vars => J'
  BY TypeStep, LifeStep, UsedStep, StoreStep, SweepStep, RevokeStep, MissedStep,
     HandledStep DEF IInv
<1>3. J => PurgeAccounted
  <2> SUFFICES ASSUME J, NEW t \in Tokens, purge[t] = "done", ~Awaited(t), NEW a \in Using(t)
               PROVE  \/ \E i \in DOMAIN pending[a] : pending[a][i] = Revoke
                      \/ \E p \in missed : token[p] = t /\ owner[p] = owner[a]
    BY DEF PurgeAccounted
  <2>1. a \in Affected(t) /\ a \notin revoked /\ owner[a] \in open
    BY DEF Using, Affected
  <2>2. Accounted(a, t)
    BY <2>1 DEF HandledInv
  <2>3. DOMAIN pending[a] = 1 .. Len(pending[a])
    BY <2>1 DEF IInv, TypeOK, Affected
  <2> QED
    BY <2>1, <2>2, <2>3 DEF Accounted, Waits
<1> QED
  BY <1>1, <1>2, <1>3, PTL DEF Spec
==============================================================================
