---------------------------- MODULE ServersModel ----------------------------
(***************************************************************************)
(* The list of servers of the client: class ServersModel                   *)
(* (client/ui/models/servers_model.cpp) over the "Servers/" group of       *)
(* Settings (client/settings.cpp).                                         *)
(*                                                                         *)
(* Every server is kept twice: in the settings (stored, storedDef) and in  *)
(* the cache the views read (rows, def).  proc is the row the settings     *)
(* pages work on, envs and subs are the lists behind the filter selectors. *)
(* Rows are numbered from 1, 0 is the code's -1 ("no server").             *)
(*                                                                         *)
(* A server is the part of its JSON object the code compares: who issued   *)
(* it (owner), its connection_uuid + node_id (conn), its config_rev (rev), *)
(* the revision of the configuration it really holds (cfg, 0 when there is *)
(* none), and the flag nameOverriddenByUser.                               *)
(***************************************************************************)
EXTENDS Integers, Sequences, FiniteSets, SequencesExt

CONSTANTS
  Subs,          \* subscription ids (auth_data.api_key)
  Conns,         \* pairs connection_uuid + node_id
  NoConn,        \* the empty connection_uuid
  EnvOf,         \* Conns -> the environment tag the gateway gives the node
  MaxRev         \* revisions of a configuration

VARIABLES sm     \* the model and what the settings hold for it

Owners == Subs \cup {"share", "manual"}

Servers == [owner : Owners, conn : Conns \cup {NoConn}, rev : 0..MaxRev,
            cfg : 0..MaxRev, renamed : BOOLEAN]

\* isFrknSubscriptionServer: issued by the gateway, with a connection id, not a share.
IsFrknSubscriptionServer(s) == s.owner \in Subs /\ s.conn # NoConn

\* subscriptionIdForServer; "" for what is not a subscription's.
SubscriptionIdForServer(s) == IF IsFrknSubscriptionServer(s) THEN s.owner ELSE ""

\* subscriptionIdOfServer of the model: the connection id does not matter here.
SubscriptionIdOfServer(s) == IF s.owner \in Subs THEN s.owner ELSE ""

\* serverHasUsableConfig
Usable(s) == s.cfg # 0

RecomputeAvailableEnvs(m) ==
  [m EXCEPT !.envs = {EnvOf[c] : c \in {m.rows[i].conn : i \in DOMAIN m.rows} \ {NoConn}}]

\* First seen order, as the selector numbers them.
RecomputeAvailableSubscriptions(m) ==
  LET ids == SelectSeq([i \in DOMAIN m.rows |-> SubscriptionIdOfServer(m.rows[i])],
                       LAMBDA x : x # "")
  IN  [m EXCEPT !.subs = FoldLeft(LAMBDA acc, x : IF Contains(acc, x) THEN acc ELSE Append(acc, x), <<>>, ids)]

SetDefaultServerIndex(m, i) == [m EXCEPT !.storedDef = i, !.def = i]

AddServer(m, s) ==
  LET stored == Append(m.stored, s)
  IN  RecomputeAvailableSubscriptions(
        RecomputeAvailableEnvs([m EXCEPT !.stored = stored, !.rows = stored]))

RemoveAllServers(m) ==
  RecomputeAvailableSubscriptions(
    RecomputeAvailableEnvs(SetDefaultServerIndex([m EXCEPT !.stored = <<>>, !.rows = <<>>], 0)))

\* The settings ignore a row past the end; replace() of the cache does not (wild).
EditServer(m, s, i) ==
  IF i \in DOMAIN m.stored
  THEN RecomputeAvailableSubscriptions([m EXCEPT !.stored[i] = s, !.rows[i] = s])
  ELSE RecomputeAvailableSubscriptions([m EXCEPT !.wild = TRUE])

\* What removeServer leaves as the default; the available environments are not recomputed.
DefaultAfterRemoval(m, i) ==
  IF Len(m.stored) = 1 THEN 0
  ELSE IF m.storedDef = i THEN 1
  ELSE IF m.storedDef > i THEN m.storedDef - 1
  ELSE m.storedDef

RemoveServerAt(m, i) ==
  LET stored == RemoveAt(m.stored, i)
      def    == DefaultAfterRemoval(m, i)
  IN  RecomputeAvailableSubscriptions(
        [SetDefaultServerIndex([m EXCEPT !.stored = stored, !.rows = stored], def)
           EXCEPT !.proc = def])

\* setData of the name: kept against what the gateway calls the server.
Rename(m, i) == EditServer(m, [m.rows[i] EXCEPT !.renamed = TRUE], i)

\* resetModel, at the start of the application and after a backup was restored.
ResetModel(m) ==
  RecomputeAvailableSubscriptions(
    RecomputeAvailableEnvs([m EXCEPT !.rows = m.stored, !.def = m.storedDef, !.proc = m.storedDef]))

\* A model that was just loaded from settings which hold these servers.
Loaded(stored, def) ==
  ResetModel([stored |-> stored, storedDef |-> def, rows |-> <<>>, def |-> 1, proc |-> 1,
              envs |-> {}, subs |-> <<>>, wild |-> FALSE])

-----------------------------------------------------------------------------
(* Properties of the list, checked of every component that writes it *)

\* The cache the views show is what a restart would load, and no write ever
\* left the list (QJsonArray::replace past the end corrupts memory).
CacheIsStored == sm.rows = sm.stored /\ sm.def = sm.storedDef /\ ~sm.wild

\* The default server is a row of the list, or there is none: the connect
\* button reads m_servers.at(m_defaultServerIndex) without a check.
DefaultIsRow == sm.def \in 0..Len(sm.rows) \/ (sm.rows = <<>> /\ sm.def = 1)

\* A subscription lists a connection of a node once: a second card would be
\* updated by no refresh (installSubscriptionConfigObject stops at the first).
OneRowPerConnection ==
  \A i, j \in DOMAIN sm.rows :
    (/\ IsFrknSubscriptionServer(sm.rows[i])
     /\ sm.rows[i].owner = sm.rows[j].owner
     /\ sm.rows[i].conn = sm.rows[j].conn) => i = j

\* The selector of subscriptions names exactly the subscriptions that have servers.
SubscriptionsAreListed ==
  ToSet(sm.subs) = {SubscriptionIdOfServer(sm.rows[i]) : i \in DOMAIN sm.rows} \ {""}

\* The list is sound after every edit, feed and import: it is what is stored, its
\* default is a row, no connection is listed twice, and the selector fits it.
ListIsSound == CacheIsStored /\ DefaultIsRow /\ OneRowPerConnection /\ SubscriptionsAreListed

=============================================================================
