------------------------------ MODULE PlayTokens ------------------------------
(***************************************************************************)
(* Play tokens from the API server to a playlog server: PermissionServer-  *)
(* Service issues, purges and updates them; PlayTokenValidator of one      *)
(* playlog server turns a token, or a parent's token, into a holder for a  *)
(* flow, keeps it in the PlayTokenStore and applies the events that        *)
(* PlayTokenEventConsumer receives.  One step is one round trip to Redis,  *)
(* MySQL or RabbitMQ, or one callback.                                     *)
(*                                                                         *)
(* Two plays, a parent and its child.  Tokens are issued for the parent    *)
(* play; a flow of the child play is authenticated by the holder that its  *)
(* session has of the parent play.  A token belongs to one user.  A        *)
(* permission stands for the number of the update that set it, 0 as        *)
(* issued.  A holder is named after the authenticate call that made it.    *)
(***************************************************************************)
EXTENDS Naturals, Sequences

CONSTANTS
  Tokens,        \* tokens, one for each id and user
  Sessions,      \* sessions of the playlog server
  Auths,         \* authenticate calls of its flows
  MaxUpdates,    \* bound: permission updates published in a behaviour
  NoToken,       \* no token
  NoSession,     \* no session
  Revoke         \* a setImmediate that revokes

Versions == 0 .. MaxUpdates

ASSUME MaxUpdatesAssumption == MaxUpdates \in Nat
ASSUME NoneAssumption == NoToken \notin Tokens /\ NoSession \notin Sessions
ASSUME RevokeAssumption == Revoke \notin Versions

VARIABLES
  redis,       \* tokens with an entry in Redis
  purge,       \* the life of a token at the API server
  permit,      \* token a permission update has looked up
  version,     \* permission updates published
  connected,   \* the event consumer's queue exists
  events,      \* events waiting in it
  open,        \* sessions that are open
  auth,        \* progress of an authenticate call
  owner,       \* session of its flow
  token,       \* token of its holder; a child's is its parent's
  child,       \* calls whose holder was made from a parent
  stored,      \* holders in the PlayTokenStore
  revoked,     \* holders revoked
  perm,        \* permission of a holder
  granted,     \* _permission of its flow
  pending,     \* setImmediate callbacks for a holder
  due,         \* history: the last update that reached it or its parent
  overtaken,   \* history: holders updated while an earlier update waited
  late,        \* history: calls under way when their session closed
  missed       \* history: holders an event of their token passed by

api == <<redis, purge, permit>>
broker == <<version, connected, events>>
calls == <<open, auth, owner, token, child, granted, late>>
holders == <<revoked, perm, pending, due, overtaken>>
vars == <<redis, purge, permit, version, connected, events, open, auth, owner,
          token, child, stored, revoked, perm, granted, pending, due,
          overtaken, late, missed>>

Event(kind, scope, t, v) == [kind |-> kind, scope |-> scope, token |-> t, version |-> v]

Events == [kind : {"revoke", "update"}, scope : {"token", "play", "childPlay", "user"},
           token : Tokens \cup {NoToken}, version : Versions]

Init ==
  /\ redis = {}
  /\ purge = [t \in Tokens |-> "unissued"]
  /\ permit = NoToken
  /\ version = 0
  /\ connected = TRUE
  /\ events = <<>>
  /\ open = Sessions
  /\ auth = [a \in Auths |-> "idle"]
  /\ owner = [a \in Auths |-> NoSession]
  /\ token = [a \in Auths |-> NoToken]
  /\ child = {}
  /\ stored = {}
  /\ revoked = {}
  /\ perm = [a \in Auths |-> 0]
  /\ granted = [a \in Auths |-> 0]
  /\ pending = [a \in Auths |-> <<>>]
  /\ due = [a \in Auths |-> 0]
  /\ overtaken = {}
  /\ late = {}
  /\ missed = {}

------------------------------------------------------------------------------
(* The API server.                                                         *)

Purging(t, from, to) == purge[t] = from /\ purge' = [purge EXCEPT ![t] = to]

(* generateToken: setex.                                                   *)
GenerateToken(t) ==
  /\ Purging(t, "unissued", "issued")
  /\ redis' = redis \cup {t}
  /\ UNCHANGED <<permit, broker, calls, stored, holders, missed>>

(* The entry's time to live ends.                                          *)
ExpireToken(t) ==
  /\ t \in redis
  /\ redis' = redis \ {t}
  /\ UNCHANGED <<purge, permit, broker, calls, stored, holders, missed>>

(* deleteToken: getPlayToken; NotFound for a token that was used ...       *)
PurgeFind(t) ==
  /\ Purging(t, "issued", IF t \in redis THEN "found" ELSE "failed")
  /\ UNCHANGED <<redis, permit, broker, calls, stored, holders, missed>>

(* Mutant: the value is deleted, and the entry found by it stays. *)
PurgeDeleteForgotten(t) ==
  /\ Purging(t, "found", "deleted")
  /\ UNCHANGED <<redis, permit, broker, calls, stored, holders, missed>>

(* ... deletePlayToken, whatever number of entries that deletes ...        *)
PurgeDelete(t) ==
  /\ Purging(t, "found", "deleted")
  /\ redis' = redis \ {t}
  /\ UNCHANGED <<permit, broker, calls, stored, holders, missed>>

(* Holders an event that is not received should have revoked.              *)
Affected(t) == {a \in Auths : token[a] = t /\ auth[a] \in {"del", "done"}}

(* ... and the event.  Without a queue the exchange drops it.              *)
PurgePublish(t) ==
  /\ Purging(t, "deleted", "done")
  /\ IF connected
     THEN /\ events' = Append(events, Event("revoke", "token", t, 0))
          /\ UNCHANGED missed
     ELSE /\ missed' = missed \cup Affected(t)
          /\ UNCHANGED events
  /\ UNCHANGED <<redis, permit, version, connected, calls, stored, holders>>

(* A step of deleteToken is rejected.                                      *)
PurgeFails(t) ==
  /\ purge[t] \in {"found", "deleted"}
  /\ purge' = [purge EXCEPT ![t] = "failed"]
  /\ UNCHANGED <<redis, permit, broker, calls, stored, holders, missed>>

(* updatePermission of one token: the token is looked up first.            *)
PermitFind(t) ==
  /\ permit = NoToken
  /\ t \in redis
  /\ version < MaxUpdates
  /\ permit' = t
  /\ UNCHANGED <<redis, purge, broker, calls, stored, holders, missed>>

PublishUpdate(scope, t) ==
  /\ version < MaxUpdates
  /\ version' = version + 1
  /\ events' = IF connected
               THEN Append(events, Event("update", scope, t, version + 1))
               ELSE events
  /\ UNCHANGED <<redis, purge, connected, calls, stored, holders, missed>>

PermitPublish ==
  /\ permit # NoToken
  /\ permit' = NoToken
  /\ PublishUpdate("token", permit)

(* updatePermission by play or by user.                                    *)
PermitAll ==
  /\ \/ PublishUpdate("play", NoToken)
     \/ \E t \in Tokens : PublishUpdate("user", t)
     \/ PublishUpdate("childPlay", NoToken)
  /\ UNCHANGED permit

------------------------------------------------------------------------------
(* PlayTokenValidator.validate.                                            *)

Start(a, s, t, label) ==
  /\ auth[a] = "idle"
  /\ s \in open
  /\ auth' = [auth EXCEPT ![a] = label]
  /\ owner' = [owner EXCEPT ![a] = s]
  /\ token' = [token EXCEPT ![a] = t]
  /\ UNCHANGED <<api, broker, open, child, granted, late, stored, holders, missed>>

(* A flow of the parent play comes with the value of a token.              *)
Authenticate(a, s, t) == Start(a, s, t, "get")

(* A flow of the child play.  With a value that Redis does not know it     *)
(* comes here too.                                                         *)
AuthenticateChild(a, s) == Start(a, s, NoToken, "relation")

Goto(a, label) == auth' = [auth EXCEPT ![a] = label]

(* _getTokenFromRedis: get.  The parent play has no parent to turn to.     *)
GetToken(a) ==
  /\ auth[a] = "get"
  /\ Goto(a, IF token[a] \in redis THEN "del" ELSE "failed")
  /\ UNCHANGED <<api, broker, open, owner, token, child, granted, late, stored,
                 holders, missed>>

(* PlayTokenStore.add, which keeps the holder it has of an id.             *)
Known(t) == \E b \in stored \ child : token[b] = t
AddHolder(a, t) == stored' = IF Known(t) THEN stored ELSE stored \cup {a}

(* Mutant: the entry is left to its time to live. *)
DelTokenForgotten(a) ==
  /\ auth[a] = "del"
  /\ Goto(a, "done")
  /\ AddHolder(a, token[a])
  /\ UNCHANGED <<api, broker, open, owner, token, child, granted, late, holders, missed>>

(* ... and del, whose result nobody looks at: the holder is made, unless   *)
(* the token has expired.                                                  *)
DelToken(a) ==
  /\ auth[a] = "del"
  /\ redis' = redis \ {token[a]}
  /\ \/ Goto(a, "done") /\ AddHolder(a, token[a])
     \/ Goto(a, "failed") /\ UNCHANGED stored
  /\ UNCHANGED <<purge, permit, broker, open, owner, token, child, granted, late,
                 holders, missed>>

(* Mutant: revoked tokens are parents too. *)
ParentsRevoked(a) == {p \in stored \ child : owner[p] = owner[a]}

(* _getParentPlayInfo: holders of the session that have not been made from *)
(* a parent themselves.                                                    *)
Parents(a) == {p \in stored \ child : owner[p] = owner[a] /\ p \notin revoked}

(* _validateBySession, once the relation of the plays is known: the first  *)
(* parent hands on its permission.  Up to the store nothing comes between. *)
ValidateBySession(a) ==
  /\ auth[a] = "relation"
  /\ \E p \in Parents(a) :
       /\ token' = [token EXCEPT ![a] = token[p]]
       /\ perm' = [perm EXCEPT ![a] = perm[p]]
       /\ granted' = [granted EXCEPT ![a] = perm[p]]
       /\ due' = [due EXCEPT ![a] = perm[p]]
  /\ child' = child \cup {a}
  /\ stored' = stored \cup {a}
  /\ Goto(a, "done")
  /\ UNCHANGED <<api, broker, open, owner, late, revoked, pending, overtaken,
                 missed>>

(* A command is rejected, no parent is found, or its token lacks the flag  *)
(* the relation asks for.                                                  *)
ValidateFails(a) ==
  /\ auth[a] \in {"get", "del", "relation"}
  /\ Goto(a, "failed")
  /\ UNCHANGED <<api, broker, open, owner, token, child, granted, late, stored,
                 holders, missed>>

OwnedBy(s) == {a \in Auths : owner[a] = s}
UnderWay == {a \in Auths : auth[a] \in {"get", "del", "relation"}}

(* Mutant: only holders made by a token are looked up. *)
DeleteBySessionParents(s) == stored' = stored \ (OwnedBy(s) \ child)

(* PlayTokenStore.deleteBySession.                                         *)
DeleteBySession(s) == stored' = stored \ OwnedBy(s)

(* The close handler of validate.                                          *)
CloseSession(s) ==
  /\ s \in open
  /\ open' = open \ {s}
  /\ DeleteBySession(s)
  /\ late' = late \cup (OwnedBy(s) \cap UnderWay)
  /\ UNCHANGED <<api, broker, auth, owner, token, child, granted, holders, missed>>

------------------------------------------------------------------------------
(* Events.                                                                 *)

(* _updatePlayTokenByEvent: the holders an event names.                    *)
Named(e) ==
  CASE e.scope = "token"     -> {a \in stored \ child : token[a] = e.token}
    [] e.scope = "user"      -> {a \in stored : token[a] = e.token}
    [] e.scope = "play"      -> stored \ child
    [] e.scope = "childPlay" -> stored \cap child

(* getByParent, for each of them.                                          *)
Children(H) == {c \in stored \cap child : \E p \in H \ child : token[c] = token[p]}

Cascade(C, entry) ==
  pending' = [a \in Auths |-> IF a \in C THEN Append(pending[a], entry) ELSE pending[a]]

(* Mutant: only the children are revoked. *)
RevokeChildren(H) ==
  /\ Cascade(Children(H), Revoke)
  /\ UNCHANGED <<revoked, perm, due, overtaken>>

(* _revokePlayToken; children follow in a setImmediate of their own.       *)
RevokePlayToken(H) ==
  /\ revoked' = revoked \cup H
  /\ Cascade(Children(H), Revoke)
  /\ UNCHANGED <<perm, due, overtaken>>

(* Mutant: only the holders that the event names are updated. *)
UpdatePermissionNamed(H, v) ==
  /\ perm' = [a \in Auths |-> IF a \in H THEN v ELSE perm[a]]
  /\ due' = [a \in Auths |-> IF a \in H \cup Children(H) THEN v ELSE due[a]]
  /\ UNCHANGED <<revoked, pending, overtaken>>

(* Updates of its parent that a holder is still to be given.               *)
Waiting(a) == \E i \in DOMAIN pending[a] : pending[a][i] # Revoke

(* _updatePermission: the holders named at once, their children in a       *)
(* setImmediate.  A child that is named itself does not wait for its turn. *)
UpdatePermission(H, v) ==
  /\ perm' = [a \in Auths |-> IF a \in H THEN v ELSE perm[a]]
  /\ due' = [a \in Auths |-> IF a \in H \cup Children(H) THEN v ELSE due[a]]
  /\ Cascade(Children(H), v)
  /\ overtaken' = (overtaken \ (H \cup Children(H)))
                     \cup {a \in H \ Children(H) : Waiting(a)}
  /\ UNCHANGED revoked

OnMessage ==
  /\ events # <<>>
  /\ events' = Tail(events)
  /\ LET e == Head(events)
     IN IF e.kind = "revoke"
        THEN /\ RevokePlayToken(Named(e))
             /\ missed' = missed \cup (Affected(e.token) \ stored)
        ELSE /\ UpdatePermission(Named(e), e.version)
             /\ UNCHANGED missed
  /\ UNCHANGED <<api, version, connected, calls, stored>>

(* Mutant: every callback sets a permission. *)
RunImmediateUpdating(a) ==
  /\ pending[a] # <<>>
  /\ pending' = [pending EXCEPT ![a] = Tail(@)]
  /\ perm' = [perm EXCEPT ![a] = Head(pending[a])]
  /\ UNCHANGED <<api, broker, calls, stored, revoked, due, overtaken, missed>>

(* A setImmediate callback.  Children have no children.                    *)
RunImmediate(a) ==
  /\ pending[a] # <<>>
  /\ pending' = [pending EXCEPT ![a] = Tail(@)]
  /\ IF Head(pending[a]) = Revoke
     THEN revoked' = revoked \cup {a} /\ UNCHANGED perm
     ELSE perm' = [perm EXCEPT ![a] = Head(pending[a])] /\ UNCHANGED revoked
  /\ UNCHANGED <<api, broker, calls, stored, due, overtaken, missed>>

(* PlayTokenEventConsumer._reconnect: the exclusive queue is gone with     *)
(* what was in it.                                                         *)
Disconnect ==
  /\ connected
  /\ connected' = FALSE
  /\ events' = <<>>
  /\ missed' = missed \cup
       UNION {Affected(events[i].token) :
                i \in {i \in DOMAIN events : events[i].kind = "revoke"}}
  /\ UNCHANGED <<api, version, calls, stored, holders>>

(* _connect makes a new one.                                               *)
Connect ==
  /\ ~connected
  /\ connected' = TRUE
  /\ UNCHANGED <<api, version, events, calls, stored, holders, missed>>

(* _connect gives up and the error is thrown: the process ends.  Another   *)
(* one starts, without the sessions.                                       *)
GiveUp ==
  /\ ~connected
  /\ connected' = TRUE
  /\ open' = {}
  /\ auth' = [a \in Auths |-> IF a \in UnderWay THEN "failed" ELSE auth[a]]
  /\ stored' = {}
  /\ pending' = [a \in Auths |-> <<>>]
  /\ UNCHANGED <<api, version, events, owner, token, child, granted, late,
                 revoked, perm, due, overtaken, missed>>

------------------------------------------------------------------------------
ApiStep(t) ==
  \/ GenerateToken(t)
  \/ ExpireToken(t)
  \/ PurgeFind(t)
  \/ PurgeDelete(t)
  \/ PurgePublish(t)
  \/ PurgeFails(t)
  \/ PermitFind(t)

AuthStep(a) ==
  \/ \E s \in Sessions : AuthenticateChild(a, s) \/ \E t \in Tokens : Authenticate(a, s, t)
  \/ GetToken(a)
  \/ DelToken(a)
  \/ ValidateBySession(a)
  \/ ValidateFails(a)
  \/ RunImmediate(a)

Next ==
  \/ \E t \in Tokens : ApiStep(t)
  \/ PermitPublish
  \/ PermitAll
  \/ \E a \in Auths : AuthStep(a)
  \/ \E s \in Sessions : CloseSession(s)
  \/ OnMessage
  \/ Disconnect
  \/ Connect
  \/ GiveUp

Spec == Init /\ [][Next]_vars

(* Messages are delivered, and setImmediate callbacks run.                 *)
FairSpec ==
  /\ Spec
  /\ WF_vars(OnMessage)
  /\ \A a \in Auths : WF_vars(RunImmediate(a))

------------------------------------------------------------------------------
(* Type invariant of the API server, the event queue and the validator.    *)
TypeOK ==
  /\ redis \subseteq Tokens
  /\ purge \in [Tokens -> {"unissued", "issued", "found", "deleted", "done", "failed"}]
  /\ permit \in Tokens \cup {NoToken}
  /\ version \in Versions
  /\ connected \in BOOLEAN
  /\ events \in Seq(Events)
  /\ open \subseteq Sessions
  /\ auth \in [Auths -> {"idle", "get", "del", "relation", "done", "failed"}]
  /\ owner \in [Auths -> Sessions \cup {NoSession}]
  /\ token \in [Auths -> Tokens \cup {NoToken}]
  /\ child \subseteq Auths
  /\ stored \subseteq Auths
  /\ revoked \subseteq Auths
  /\ perm \in [Auths -> Versions]
  /\ granted \in [Auths -> Versions]
  /\ pending \in [Auths -> Seq(Versions \cup {Revoke})]
  /\ due \in [Auths -> Versions]
  /\ overtaken \subseteq Auths
  /\ late \subseteq Auths
  /\ missed \subseteq Auths

(* Revoking a token revokes the children authenticated by it               *)
(* (_revokePlayToken): a child of a revoked holder is revoked, or a        *)
(* callback that will revoke it waits.  In particular no child slips in    *)
(* between the revocation of its parent and the look at the children.      *)
ChildrenRevoked ==
  \A p \in (stored \ child) \cap revoked : \A c \in stored \cap child :
    token[c] = token[p] =>
      c \in revoked \/ \E i \in DOMAIN pending[c] : pending[c][i] = Revoke

(* Once no callback waits, a holder has the permission of the last update  *)
(* that named it or its parent (_updatePermission), however updates,       *)
(* revocations, new children and callbacks interleave, with one exception: *)
(* a child that was itself updated while the setImmediate of an earlier    *)
(* update of its parent was waiting ends up with that earlier one, until   *)
(* either is updated again.                                                *)
LastUpdateStands ==
  \A a \in stored \ overtaken : pending[a] = <<>> => perm[a] = due[a]

(* The store is emptied of the holders of a closed session (validate),     *)
(* except for those whose validation was under way when it closed.         *)
ClosedSessionSwept == \A a \in stored : owner[a] \notin open => a \in late

(* A token is good for one authentication (_getTokenFromRedis): nobody     *)
(* reads it once a flow has been authenticated by it.                      *)
UsedOnce ==
  [][\A a \in Auths : auth[a] = "get" /\ auth'[a] = "del" =>
       \A b \in Auths : auth[b] = "done" => token[b] # token[a]]_vars

(* Flows that may go on with the token t, or with a child of it.           *)
Using(t) == {a \in Auths \ revoked : auth[a] = "done" /\ token[a] = t /\ owner[a] \in open}

(* The event that revokes t waits in the queue.                            *)
Awaited(t) == \E i \in DOMAIN events : events[i].kind = "revoke" /\ events[i].token = t

(* At every moment of a purge (deleteToken) that was not rejected, a flow  *)
(* that may use the token is accounted for: the event is still to come, or *)
(* a callback that revokes its holder, or it was passed by like the        *)
(* holders below.  No validation gets a holder out of the token once the   *)
(* event is handled, and no child out of a parent that it revoked.         *)
PurgeAccounted ==
  \A t \in Tokens : purge[t] = "done" /\ ~Awaited(t) =>
    \A a \in Using(t) :
      \/ \E i \in DOMAIN pending[a] : pending[a][i] = Revoke
      \/ \E p \in missed : token[p] = t /\ owner[p] = owner[a]

(* A purged token (deleteToken) ends in no flow that may still use it,     *)
(* except for holders that were not in the store when the event came, or   *)
(* whose event was lost with the queue, and their children.                *)
PurgeTakesEffect ==
  \A t \in Tokens :
    purge[t] = "done" ~>
      \A a \in Using(t) :
        a \in missed \/ \E p \in missed : token[p] = t /\ owner[p] = owner[a]

(* Updating permissions applies to tokens that are authenticated already:  *)
(* a flow goes by the permission its holder has.                           *)
PermissionInForce == \A a \in stored : owner[a] \in open => granted[a] = perm[a]
==============================================================================
