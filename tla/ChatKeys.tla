------------------------------ MODULE ChatKeys ------------------------------
(***************************************************************************)
(* The keys of the chat and of the evidence of reports.  Every             *)
(* conversation has one data key (DEK), made by its first message; every   *)
(* evidence has its own.  The rows keep them wrapped in a master key (KEK) *)
(* of the environment.  Operators rotate the KEK: each instance is         *)
(* deployed with the next version, the rewrap reconcilers move the rows    *)
(* over, and the old version leaves the environment when the metric of     *)
(* what is pending says that nothing needs it.                             *)
(***************************************************************************)
EXTENDS Naturals, FiniteSets

CONSTANTS Instances,    \* processes of the API
          Convs,        \* conversations
          Reports,      \* reports of messages
          Slots,        \* sends under way at once
          Versions,     \* 1..N, the versions of the KEK
          MaxSends,     \* bound on messages sent
          MaxFaults,    \* bound on passes that cannot read one of their sources
          None

ASSUME ChatKeysAssumption ==
  /\ Versions \subseteq Nat \ {0} /\ 1 \in Versions
  /\ \A v, w \in Versions : v..w \subseteq Versions
  /\ Convs \cap Reports = {} /\ None \notin Instances \cup Convs

VARIABLES
  active, keks,         \* of each instance: CHAT_KEK_ACTIVE_VERSION, the CHAT_KEK_V<n> it has
  row,                  \* wrapped DEKs (0: none, or emptied) and their kekVersion (0: no row)
  cache,                \* DEKs each process holds unwrapped
  op,                   \* what each send is about to do
  messages,             \* conversations and the DEKs their messages are sealed with
  purged,               \* evidence the retention has emptied
  pass,                 \* where each instance's reconciler is
  pending, passed,      \* versions its metric shows; whether it made a pass since boot
  unsure,               \* some pass could not read a source
  minted, sends, faults

rotation == <<active, keks, pending, passed, unsure>>
store == <<row, messages, purged, minted>>
vars == <<rotation, store, cache, op, pass, sends, faults>>

Rows == Convs \cup Reports
NoRow == [dek |-> 0, kek |-> 0]
Free == [at |-> "idle", on |-> None, conv |-> None, dek |-> 0]
NoPass == [at |-> "idle", row |-> None, from |-> 0, dek |-> 0, seen |-> {}]

TypeOK ==
  /\ active \in [Instances -> Versions] /\ keks \in [Instances -> SUBSET Versions]
  /\ \A r \in Rows : row[r].dek \in 0..minted /\ row[r].kek \in Versions \cup {0}
  /\ cache \in [Instances -> [Convs -> 0..minted]]
  /\ \A s \in Slots : op[s].at \in {"idle", "create", "reread", "store"}
  /\ messages \subseteq Convs \X (1..minted) /\ purged \subseteq Reports
  /\ \A i \in Instances : pass[i].at \in {"idle", "persist", "count"}
                          /\ pending[i] \subseteq Versions
  /\ \A i \in Instances : active[i] \in keks[i]

Init ==
  /\ active = [i \in Instances |-> 1] /\ keks = [i \in Instances |-> {1}]
  /\ row = [r \in Rows |-> NoRow] /\ cache = [i \in Instances |-> [c \in Convs |-> 0]]
  /\ op = [s \in Slots |-> Free] /\ messages = {} /\ purged = {}
  /\ pass = [i \in Instances |-> NoPass]
  /\ pending = [i \in Instances |-> {}] /\ passed = [i \in Instances |-> FALSE]
  /\ unsure = FALSE /\ minted = 0 /\ sends = 0 /\ faults = 0

-----------------------------------------------------------------------------
(* Sending and reading. *)

\* unwrap uses the version of the row, which the instance may not have.
Opens(i, r) == row[r].kek \in keks[i] /\ row[r].dek # 0

Become(s, at, i, c, d) == op' = [op EXCEPT ![s] = [at |-> at, on |-> i, conv |-> c, dek |-> d]]
Cached(i, c, d) == cache' = [cache EXCEPT ![i][c] = d]

\* ensureConversationDek finds the key of the conversation, in the cache or by
\* unwrapping it, or makes one.
ensureConversationDek(s, i, c) ==
  /\ op[s].at = "idle" /\ sends < MaxSends /\ sends' = sends + 1
  /\ \/ /\ row[c] # NoRow /\ cache[i][c] # 0
        /\ Become(s, "store", i, c, cache[i][c]) /\ UNCHANGED <<cache, minted>>
     \/ /\ row[c] # NoRow /\ cache[i][c] = 0 /\ Opens(i, c)
        /\ Become(s, "store", i, c, row[c].dek) /\ Cached(i, c, row[c].dek)
        /\ UNCHANGED minted
     \/ /\ row[c] = NoRow /\ minted' = minted + 1
        /\ Become(s, "create", i, c, minted + 1) /\ UNCHANGED cache
  /\ UNCHANGED <<rotation, row, messages, purged, pass, faults>>

\* The unique (conversationId, version) elects one of two first sends.
createConversationKey(s) ==
  LET c == op[s].conv
      i == op[s].on
  IN /\ op[s].at = "create"
     /\ IF row[c] = NoRow
        THEN /\ row' = [row EXCEPT ![c] = [dek |-> op[s].dek, kek |-> active[i]]]
             /\ Cached(i, c, op[s].dek) /\ Become(s, "store", i, c, op[s].dek)
        ELSE Become(s, "reread", i, c, op[s].dek) /\ UNCHANGED <<row, cache>>
     /\ UNCHANGED <<rotation, messages, purged, minted, pass, sends, faults>>

\* The key of this call, whoever stored its own first.
OwnDek(s) == op[s].dek

\* The loser reads the winner's key.
WinnersDek(s) == row[op[s].conv].dek

rereadConversationKey(s) ==
  LET c == op[s].conv
      i == op[s].on
  IN /\ op[s].at = "reread"
     /\ IF Opens(i, c)
        THEN Become(s, "store", i, c, WinnersDek(s)) /\ Cached(i, c, WinnersDek(s))
        ELSE op' = [op EXCEPT ![s] = Free] /\ UNCHANGED cache
     /\ UNCHANGED <<rotation, store, pass, sends, faults>>

\* The message is stored with the ciphertext its DEK sealed.
storeMessage(s) ==
  /\ op[s].at = "store" /\ op' = [op EXCEPT ![s] = Free]
  /\ messages' = messages \cup {<<op[s].conv, op[s].dek>>}
  /\ UNCHANGED <<rotation, row, purged, minted, cache, pass, sends, faults>>

\* A page of messages is hydrated: its key is unwrapped once and kept a while.
hydrateMessages(i, c) ==
  /\ cache[i][c] = 0 /\ Opens(i, c) /\ Cached(i, c, row[c].dek)
  /\ UNCHANGED <<rotation, store, op, pass, sends, faults>>

expireDek(i, c) ==
  /\ cache[i][c] # 0 /\ Cached(i, c, 0)
  /\ UNCHANGED <<rotation, store, op, pass, sends, faults>>

-----------------------------------------------------------------------------
(* Evidence. *)

\* The report and its evidence are one transaction; the DEK is its own.
sealEvidence(i, r) ==
  /\ row[r] = NoRow /\ sends < MaxSends /\ sends' = sends + 1
  /\ minted' = minted + 1
  /\ row' = [row EXCEPT ![r] = [dek |-> minted + 1, kek |-> active[i]]]
  /\ UNCHANGED <<rotation, messages, purged, cache, op, pass, faults>>

\* The retention empties payload and key.
purgeEvidence(r) ==
  /\ row[r] # NoRow /\ r \notin purged
  /\ purged' = purged \cup {r} /\ row' = [row EXCEPT ![r].dek = 0]
  /\ UNCHANGED <<rotation, messages, minted, cache, op, pass, sends, faults>>

-----------------------------------------------------------------------------
(* The rewrap reconciler of an instance. *)

\* What findPending and countPending both ask for.
ToRewrap(v) == {r \in Rows \ purged : row[r].kek \in 1..(v - 1) /\ row[r].dek # 0}

\* A row is read, unwrapped and wrapped again.
findPending(i, r) ==
  /\ pass[i].at = "idle" /\ r \in ToRewrap(active[i]) /\ Opens(i, r)
  /\ pass' = [pass EXCEPT ![i] = [at |-> "persist", row |-> r, from |-> row[r].kek,
                                  dek |-> row[r].dek, seen |-> {}]]
  /\ UNCHANGED <<rotation, store, cache, op, sends, faults>>

\* The envelope is replaced whatever it holds now.
AnyEnvelope(i) == TRUE

\* The compare-and-set on the version that was read.
Unchanged(i) == row[pass[i].row].kek = pass[i].from

persist(i) ==
  /\ pass[i].at = "persist"
  /\ row' = IF Unchanged(i)
            THEN [row EXCEPT ![pass[i].row] = [dek |-> pass[i].dek, kek |-> active[i]]]
            ELSE row
  /\ pass' = [pass EXCEPT ![i] = NoPass]
  /\ UNCHANGED <<rotation, messages, purged, minted, cache, op, sends, faults>>

\* The conversation keys still pending are counted; evidence has its turn next.
countPending(i) ==
  /\ pass[i].at = "idle"
  /\ pass' = [pass EXCEPT ![i].at = "count",
                          ![i].seen = {row[r].kek : r \in ToRewrap(active[i]) \cap Convs}]
  /\ UNCHANGED <<rotation, store, cache, op, sends, faults>>

\* Neither the drain nor the count of the keys could read them: their source
\* contributes nothing, and the pass goes on.
countFails(i) ==
  /\ pass[i].at = "idle" /\ faults < MaxFaults /\ faults' = faults + 1
  /\ pass' = [pass EXCEPT ![i].at = "count"]
  /\ unsure' = TRUE
  /\ UNCHANGED <<active, keks, pending, passed, store, cache, op, sends>>

\* Only what the pass itself has seen.
CountedKeys(i) == pass[i].seen
Counted(i) == pass[i].seen \cup {row[r].kek : r \in ToRewrap(active[i]) \cap Reports}

\* The metric is reset and shows the versions that were counted.
publishPending(i) ==
  /\ pass[i].at = "count"
  /\ pending' = [pending EXCEPT ![i] = Counted(i)] /\ passed' = [passed EXCEPT ![i] = TRUE]
  /\ pass' = [pass EXCEPT ![i] = NoPass]
  /\ UNCHANGED <<active, keks, unsure, store, cache, op, sends, faults>>

-----------------------------------------------------------------------------
(* The operators: an instance starts again with another environment. *)

Restart(S) ==
  /\ cache' = [i \in Instances |-> IF i \in S THEN [c \in Convs |-> 0] ELSE cache[i]]
  /\ op' = [s \in Slots |-> IF op[s].on \in S THEN Free ELSE op[s]]
  /\ pass' = [i \in Instances |-> IF i \in S THEN NoPass ELSE pass[i]]
  /\ pending' = [i \in Instances |-> IF i \in S THEN {} ELSE pending[i]]
  /\ passed' = [i \in Instances |-> passed[i] /\ i \notin S]
  /\ UNCHANGED <<store, unsure, sends, faults>>

\* Steps 1 and 2 of the rotation.  The next version is a second rotation.
deploy(i) ==
  /\ active[i] + 1 \in Versions
  /\ active' = [active EXCEPT ![i] = @ + 1]
  /\ keks' = [keks EXCEPT ![i] = @ \cup {active[i] + 1}]
  /\ Restart({i})

\* Step 4: the metric of every instance is free of the version.
Authorised(v) == \A j \in Instances : active[j] > v /\ passed[j] /\ v \notin pending[j]

retire(v) ==
  /\ Authorised(v) /\ \E i \in Instances : v \in keks[i]
  /\ keks' = [i \in Instances |-> keks[i] \ {v}]
  /\ UNCHANGED active /\ Restart(Instances)

Rewrap(i) == (\E r \in Rows : findPending(i, r)) \/ persist(i)

Next ==
  \/ \E s \in Slots, i \in Instances, c \in Convs : ensureConversationDek(s, i, c)
  \/ \E s \in Slots : createConversationKey(s) \/ rereadConversationKey(s) \/ storeMessage(s)
  \/ \E i \in Instances, c \in Convs : hydrateMessages(i, c) \/ expireDek(i, c)
  \/ \E i \in Instances, r \in Reports : sealEvidence(i, r)
  \/ \E r \in Reports : purgeEvidence(r)
  \/ \E i \in Instances : Rewrap(i) \/ countPending(i) \/ countFails(i) \/ publishPending(i)
                          \/ deploy(i)
  \/ \E v \in Versions : retire(v)

Spec == Init /\ [][Next]_vars

-----------------------------------------------------------------------------
(* Properties. *)

\* Whatever raced when the conversation began, its one key opens every message
\* of it, and no process caches another.
OneKeyOpensAll ==
  /\ \A m \in messages : row[m[1]].dek = m[2]
  /\ \A i \in Instances, c \in Convs : cache[i][c] \in {0, row[c].dek}

\* A version leaves the environment only when nothing stored needs it: an
\* instance that is up to date opens every key and all evidence that is kept.
\* A pass that cannot read a source breaks this: it shows nothing pending.
NeededKeysHeld ==
  ~unsure => \A i \in Instances, r \in Rows \ purged :
               row[r].kek \in 1..active[i] => row[r].kek \in keks[i]

\* Replicas that rewrap the same row never take it back to an older version.
EnvelopeAdvances == \A r \in Rows : row'[r].kek >= row[r].kek

EnvelopesAdvance == [][EnvelopeAdvances]_vars

\* What the rotation's instructions promise (docs/GESTAO_DE_CHAVES.md:167-176).
ZeroMeansDrained ==
  \A i \in Instances, r \in Rows \ purged :
    row[r].kek \in 1..active[i] => row[r].kek \in keks[i]

\* "Expurgo: zera o ciphertext e a chave" (report-evidence.repository.ts:123):
\* the key of purged evidence does not come back.
PurgedStaysEmpty == \A r \in purged : row[r].dek = 0
=============================================================================
