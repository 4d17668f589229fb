------------------------------- MODULE Vault -------------------------------
(* The keys of external services that one tenant stores
   (core/vault/vault_service.py, api/routes/vault.py). A name stands for a
   service and the name of a key in it; no constraint of the table keeps a name
   to one row. A value stands for the credentials of one request.

   Every read is a session of its own, so that between finding a row and writing
   it anything may happen. Rows are encrypted with a secret that a process makes
   up when it starts, unless one is configured.                              *)
EXTENDS Integers, Sequences

CONSTANTS Names, Callers, Processes,
          Home,        \* the process that serves a caller
          Configured,  \* whether SECRET_KEY is in the environment
          MaxStores, MaxRestarts

\* What the values of the constants satisfy.
VaultAssumption ==
  /\ Home \in [Callers -> Processes] /\ Configured \in BOOLEAN
  /\ {MaxStores, MaxRestarts} \subseteq Nat

VARIABLES
  rows,        \* the table: name, value, secret, whether active and ever used
  starts,      \* how often each process was started again
  calls,       \* what each caller is doing
  stored,      \* the number of values so far
  latest,      \* history: per name, the value of the last store, or 0 after a delete
  overlapped   \* history: names that two stores looked for before either had written

vars == <<rows, starts, calls, stored, latest, overlapped>>

NoCall == [pc |-> "idle", name |-> "none", row |-> 0, value |-> 0, answer |-> 0, due |-> 0]
Raises == -1

VaultInit ==
  /\ rows = <<>> /\ stored = 0 /\ overlapped = {}
  /\ starts = [p \in Processes |-> 0]
  /\ calls = [c \in Callers |-> NoCall]
  /\ latest = [n \in Names |-> 0]

(* _derive_key: what a process makes of its secret. *)
Secret(p) == IF Configured THEN <<"configured", 0>> ELSE <<p, starts[p]>>

RowsOf(n) == {i \in DOMAIN rows : rows[i].name = n}
ActiveRows(n) == {i \in RowsOf(n) : rows[i].active}

Begin(c, call) ==
  /\ calls[c].pc = "idle"
  /\ calls' = [calls EXCEPT ![c] = call]

\* Mutant: a key that was deleted is not looked for.
FoundActive(n) == ActiveRows(n)

(* _find_key, which raises when there are several. *)
Found(n) == RowsOf(n)

(* store_key up to its write. *)
StoreKey(c, n) ==
  /\ stored < MaxStores /\ stored' = stored + 1
  /\ \E i \in Found(n) \cup {0} :
       /\ i = 0 => Found(n) = {}
       /\ Begin(c, IF \E j \in Found(n) : j # i THEN [NoCall EXCEPT !.pc = "refused"]
                   ELSE [NoCall EXCEPT !.pc = "storing", !.name = n, !.row = i, !.value = stored + 1])
  /\ overlapped' =
       IF \E d \in Callers \ {c} : calls[d].pc = "storing" /\ calls[d].name = n
       THEN overlapped \cup {n} ELSE overlapped
  /\ UNCHANGED <<rows, starts, latest>>

\* Mutant: a deleted key that is stored again stays deleted.
KeepingState(row, c) ==
  [row EXCEPT !.value = calls[c].value, !.secret = Secret(Home[c])]

(* What an update leaves in the row. *)
Replaced(row, c) ==
  [row EXCEPT !.value = calls[c].value, !.secret = Secret(Home[c]), !.active = TRUE]

(* The update or the insertion of the row is committed; after an update it is
   looked for once more, which can raise but changes nothing.                *)
WriteKey(c) ==
  /\ calls[c].pc = "storing"
  /\ rows' = IF calls[c].row # 0
             THEN [rows EXCEPT ![calls[c].row] = Replaced(@, c)]
             ELSE Append(rows, [name |-> calls[c].name, value |-> calls[c].value,
                                secret |-> Secret(Home[c]), active |-> TRUE, used |-> FALSE])
  /\ latest' = [latest EXCEPT ![calls[c].name] = calls[c].value]
  /\ calls' = [calls EXCEPT ![c] = NoCall]
  /\ UNCHANGED <<starts, stored, overlapped>>

(* _decrypt with the secret of the process that is asked. *)
Decrypted(row, c) == IF row.secret = Secret(Home[c]) THEN row.value ELSE Raises

(* get_key: the row is read and decrypted; several active ones raise. *)
GetKey(c, n) ==
  /\ \E i \in ActiveRows(n) :
       Begin(c, IF ActiveRows(n) # {i} \/ Decrypted(rows[i], c) = Raises
                THEN [NoCall EXCEPT !.pc = "refused"]
                ELSE [pc |-> "stamping", name |-> n, row |-> i, value |-> 0,
                      answer |-> Decrypted(rows[i], c), due |-> latest[n]])
  /\ UNCHANGED <<rows, starts, stored, latest, overlapped>>

(* The time of its use is written before the answer is given. *)
Stamp(c) ==
  /\ calls[c].pc = "stamping"
  /\ rows' = [rows EXCEPT ![calls[c].row].used = TRUE]
  /\ calls' = [calls EXCEPT ![c].pc = "answered"]
  /\ UNCHANGED <<starts, stored, latest, overlapped>>

(* delete_key up to its write. *)
DeleteKey(c, n) ==
  /\ \E i \in ActiveRows(n) :
       Begin(c, IF ActiveRows(n) # {i} THEN [NoCall EXCEPT !.pc = "refused"]
                ELSE [NoCall EXCEPT !.pc = "deleting", !.name = n, !.row = i])
  /\ UNCHANGED <<rows, starts, stored, latest, overlapped>>

WriteDelete(c) ==
  /\ calls[c].pc = "deleting"
  /\ rows' = [rows EXCEPT ![calls[c].row].active = FALSE]
  /\ latest' = [latest EXCEPT ![calls[c].name] = 0]
  /\ calls' = [calls EXCEPT ![c] = NoCall]
  /\ UNCHANGED <<starts, stored, overlapped>>

Return(c) ==
  /\ calls[c].pc \in {"answered", "refused"}
  /\ calls' = [calls EXCEPT ![c] = NoCall]
  /\ UNCHANGED <<rows, starts, stored, latest, overlapped>>

(* A process ends, and with it the calls it was serving. *)
Restart(p) ==
  /\ starts[p] < MaxRestarts
  /\ starts' = [starts EXCEPT ![p] = @ + 1]
  /\ calls' = [c \in Callers |-> IF Home[c] = p THEN NoCall ELSE calls[c]]
  /\ UNCHANGED <<rows, stored, latest, overlapped>>

VaultNext ==
  \/ \E c \in Callers :
       \/ WriteKey(c) \/ Stamp(c) \/ WriteDelete(c) \/ Return(c)
       \/ \E n \in Names : StoreKey(c, n) \/ GetKey(c, n) \/ DeleteKey(c, n)
  \/ \E p \in Processes : Restart(p)

VaultSpec == VaultInit /\ [][VaultNext]_vars

(***************************************************************************)
(* Properties                                                              *)
(***************************************************************************)
VaultTypeOK ==
  /\ rows \in Seq([name : Names, value : 1..MaxStores, secret : {Secret(p) : p \in Processes}
                     \cup {<<p, s>> : p \in Processes, s \in 0..MaxRestarts},
                   active : BOOLEAN, used : BOOLEAN])
  /\ stored \in 0..MaxStores /\ overlapped \subseteq Names
  /\ latest \in [Names -> 0..MaxStores] /\ starts \in [Processes -> 0..MaxRestarts]
  /\ \A c \in Callers : /\ calls[c].pc \in {"idle", "storing", "deleting", "stamping", "answered",
                                            "refused"}
                        /\ calls[c].row \in 0..Len(rows)

(* A name that no two stores looked for at once has one row at most, which is
   active exactly when the last write was a store, with the value of that store,
   through deletes, restarts and updates of rows found before others wrote them;
   and a key that is answered is the one that was in force when it was read.  *)
KeysAreTrue ==
  /\ \A n \in Names \ overlapped :
       /\ \A i, j \in RowsOf(n) : i = j
       /\ \A i \in RowsOf(n) : rows[i].active = (latest[n] # 0)
       /\ \A i \in ActiveRows(n) : rows[i].value = latest[n]
       /\ latest[n] # 0 => ActiveRows(n) # {}
  /\ \A c \in Callers :
       calls[c].pc = "answered" /\ calls[c].name \notin overlapped
         => calls[c].answer = calls[c].due
=============================================================================
