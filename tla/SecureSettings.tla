---------------------------- MODULE SecureSettings ----------------------------
(***************************************************************************)
(* The encrypted settings of the client: class SecureQSettings             *)
(* (client/secure_qsettings.cpp), for the one key it encrypts, the list of *)
(* servers.                                                                *)
(*                                                                         *)
(* The list is encrypted under a key and an initialisation vector that are  *)
(* kept in the system's key store and read from it once per process.  The   *)
(* key store is external: a write to it may be dropped or may land after   *)
(* the one second setSecTag waits for it; whether a read may fail although *)
(* the entry exists, or a late write land after a newer one, is the        *)
(* constant KeychainFaults.                                                *)
(***************************************************************************)
EXTENDS Integers

CONSTANTS
  Values,       \* lists of servers
  NoValue,         \* nothing
  MaxKey,       \* bound: keys generated
  KeychainFaults \* whether the key store may hide an existing entry, or reorder writes

ASSUME SettingsAssumption ==
  /\ NoValue \notin Values
  /\ MaxKey \in Nat
  /\ KeychainFaults \in BOOLEAN

VARIABLES
  disk,     \* [kind, value, key, iv] of Servers/serversList
  flag,     \* Conf/encrypted
  started,  \* the constructor has run in this process
  cache,    \* m_cache: "no" entry, or an entry
  mem,      \* m_key, m_iv; 0 is the empty array
  store,    \* external: the key store's entries
  lateWrites,     \* external: writes of entries that are still to land
  fresh,    \* the next key to be generated
  backup,   \* a backup file: a list, or NoValue
  accepted  \* the value setValue took last, as a restart should show it

settingsVars == <<disk, flag, started, cache, mem, store, lateWrites, fresh, backup, accepted>>

Tags     == {"key", "iv"}
Bytes    == 0..MaxKey
Absent   == [kind |-> "absent", value |-> NoValue, key |-> 0, iv |-> 0]
Plain(v) == [kind |-> "plain", value |-> v, key |-> 0, iv |-> 0]
Enc(v)   == [kind |-> "enc", value |-> v, key |-> mem.key, iv |-> mem.iv]
Disks    == [kind : {"absent", "plain", "enc"}, value : Values \cup {NoValue}, key : Bytes, iv : Bytes]
Caches   == [hit : BOOLEAN, value : Values \cup {NoValue}]
Miss     == [hit |-> FALSE, value |-> NoValue]
Hit(v)   == [hit |-> TRUE, value |-> v]

HaveKeys == mem.key # 0 /\ mem.iv # 0

\* What value() returns: a value encrypted under other keys does not decrypt.
Decrypted == IF disk.kind = "enc" /\ (disk.key # mem.key \/ disk.iv # mem.iv) THEN NoValue ELSE disk.value
Value     == IF cache.hit THEN cache.value ELSE Decrypted

MutGetSecTag(t) ==
  /\ fresh <= MaxKey
  /\ fresh' = fresh + 1
  /\ store' = [store EXCEPT ![t] = fresh]
  /\ mem' = [mem EXCEPT ![t] = fresh]
  /\ UNCHANGED lateWrites

\* getEncKey and getEncIv: read the entry; when there is none, generate one, write it
\* and read it again.  The write lands, is dropped, or lands later.
GetSecTag(t) ==
  \/ /\ store[t] # 0
     /\ mem' = [mem EXCEPT ![t] = store[t]]
     /\ UNCHANGED <<store, lateWrites, fresh>>
  \/ /\ store[t] = 0 \/ KeychainFaults
     /\ fresh <= MaxKey
     /\ fresh' = fresh + 1
     /\ \/ store' = [store EXCEPT ![t] = fresh] /\ mem' = [mem EXCEPT ![t] = fresh] /\ UNCHANGED lateWrites
        \/ lateWrites' = [lateWrites EXCEPT ![t] = fresh] /\ mem' = [mem EXCEPT ![t] = store[t]] /\ UNCHANGED store
        \/ mem' = [mem EXCEPT ![t] = store[t]] /\ UNCHANGED <<store, lateWrites>>

\* A read or a write of the settings that needs the keys fetches what it lacks first.
LoadTag(t) ==
  /\ mem[t] = 0
  /\ t = "iv" => mem.key # 0
  /\ lateWrites[t] = 0 \/ KeychainFaults
  /\ GetSecTag(t)
  /\ UNCHANGED <<disk, flag, started, cache, backup, accepted>>

\* External: the write setSecTag gave up waiting for.
LateWrite(t) ==
  /\ lateWrites[t] # 0
  /\ store' = [store EXCEPT ![t] = lateWrites[t]]
  /\ lateWrites' = [lateWrites EXCEPT ![t] = 0]
  /\ UNCHANGED <<disk, flag, started, cache, mem, fresh, backup, accepted>>

\* value(): nothing is cached when a key is missing; what does not decrypt is cached as
\* an invalid value.
ReadValue ==
  /\ started
  /\ ~cache.hit /\ disk.kind # "absent"
  /\ disk.kind = "plain" \/ HaveKeys
  /\ cache' = Hit(Decrypted)
  /\ UNCHANGED <<disk, flag, started, mem, store, lateWrites, fresh, backup, accepted>>

\* setValue(): without keys the call returns and leaves file and cache alone.
SetValue(v) ==
  IF HaveKeys THEN disk' = Enc(v) /\ cache' = Hit(v) /\ accepted' = v
  ELSE UNCHANGED <<disk, cache, accepted>>

WriteValue(v) ==
  /\ started
  /\ SetValue(v)
  /\ UNCHANGED <<flag, started, mem, store, lateWrites, fresh, backup>>

\* The constructor: converts a list written by an old version and notes that it did.
Construct ==
  /\ ~started
  /\ started' = TRUE
  /\ flag' = TRUE
  /\ IF flag \/ disk.kind = "absent" \/ (disk.kind = "enc" /\ ~HaveKeys)
     THEN UNCHANGED <<disk, cache, accepted>>
     ELSE IF HaveKeys THEN SetValue(Value)
     ELSE cache' = Hit(Value) /\ UNCHANGED <<disk, accepted>>
  /\ UNCHANGED <<mem, store, lateWrites, fresh, backup>>

\* backupAppConfig and restoreAppConfig; the file is plain text.
Backup ==
  /\ started
  /\ disk.kind # "absent" /\ (cache.hit \/ disk.kind = "plain" \/ HaveKeys)
  /\ backup' = Value
  /\ cache' = Hit(Value)
  /\ UNCHANGED <<disk, flag, started, mem, store, lateWrites, fresh, accepted>>

Restore ==
  /\ started
  /\ backup # NoValue
  /\ SetValue(backup)
  /\ UNCHANGED <<flag, started, mem, store, lateWrites, fresh, backup>>

\* clearSettings: the file and the cache; the keys stay where they are.
ClearSettings ==
  /\ started
  /\ disk' = Absent /\ flag' = FALSE /\ cache' = Miss /\ accepted' = NoValue
  /\ UNCHANGED <<started, mem, store, lateWrites, fresh, backup>>

\* The process ends, by a crash as well, and starts again.
Restart ==
  /\ mem' = [t \in Tags |-> 0] /\ cache' = Miss /\ started' = FALSE
  /\ UNCHANGED <<disk, flag, store, lateWrites, fresh, backup, accepted>>

\* A new installation, or the file of a version that did not encrypt.
SettingsInit ==
  /\ \E v \in Values \cup {NoValue} : disk = (IF v = NoValue THEN Absent ELSE Plain(v)) /\ accepted = v
  /\ flag = FALSE /\ started = FALSE
  /\ cache = Miss
  /\ mem = [t \in Tags |-> 0]
  /\ store = [t \in Tags |-> 0]
  /\ lateWrites = [t \in Tags |-> 0]
  /\ fresh = 1
  /\ backup = NoValue

SettingsNext ==
  \/ \E t \in Tags : LoadTag(t) \/ LateWrite(t)
  \/ \E v \in Values : WriteValue(v)
  \/ Construct \/ ReadValue \/ Backup \/ Restore \/ ClearSettings \/ Restart

SettingsSpec == SettingsInit /\ [][SettingsNext]_settingsVars

-----------------------------------------------------------------------------
(* Properties *)

\* Types of the variables.
SettingsTypeOK ==
  /\ disk \in Disks /\ flag \in BOOLEAN /\ started \in BOOLEAN /\ cache \in Caches
  /\ mem \in [Tags -> Bytes] /\ store \in [Tags -> Bytes] /\ lateWrites \in [Tags -> Bytes]
  /\ fresh \in 1..(MaxKey + 1)
  /\ backup \in Values \cup {NoValue} /\ accepted \in Values \cup {NoValue}

\* An encrypted list can be decrypted by the keys that the key store holds, so the
\* servers outlive a restart or a crash at any point, also between the writes of the
\* key, of the vector and of the list (getEncKey, getEncIv, setValue).
StoredIsReadable ==
  disk.kind = "enc" => store["key"] = disk.key /\ store["iv"] = disk.iv

\* The list on disk is the one setValue accepted last, and what the client shows from
\* the cache is the same: a refused write leaves no trace in either.
ShowsWhatWasAccepted ==
  disk.value = accepted /\ (cache.hit => cache.value = accepted)

\* The list of servers survives: what setValue accepted last is on disk, can be
\* decrypted after a restart or a crash at any point, and is what the client shows.
ListSurvives == StoredIsReadable /\ ShowsWhatWasAccepted

\* The inductive invariant behind both.
SettingsInv ==
  /\ SettingsTypeOK
  /\ StoredIsReadable
  /\ ShowsWhatWasAccepted
  /\ \A t \in Tags : mem[t] # 0 => mem[t] = store[t]
  /\ \A t \in Tags : lateWrites[t] # 0 => store[t] = 0
  /\ disk.kind = "absent" => disk.value = NoValue
  /\ disk.kind = "enc" => disk.key # 0 /\ disk.iv # 0

=============================================================================
