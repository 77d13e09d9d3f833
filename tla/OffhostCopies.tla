---------------------------- MODULE OffhostCopies ----------------------------
(***************************************************************************)
(* The copy of the newest backup to another machine:                       *)
(* scripts/payment_db_offhost_sender.py, which runs one transfer at a      *)
(* time, and payment_db_offhost_receiver.py, which ssh starts once per     *)
(* transfer.  A receiver outlives a sender that gave up, so two may run.   *)
(***************************************************************************)
EXTENDS PaymentBackups

CONSTANTS Receivers,   \* receiver processes that may run at one time
          RemoteKeep,  \* pairs the receiver retains
          MaxSends,    \* bound: transfers
          MaxLosses    \* bound: lost connections, timeouts and killed receivers

ASSUME RemoteKeepAssumption == RemoteKeep \in Nat \ {0}

VARIABLES remote,     \* the directory of the other machine
          sender,     \* the transfer: its step, name and receiver
          receivers,  \* what each receiver has read and does next
          sends,      \* transfers so far
          losses,     \* losses so far
          reported    \* history: the names whose transfer was reported a success

offhostVars == <<remote, sender, receivers, sends, losses, reported>>

IdleSender == [step |-> "idle", name |-> 0, via |-> "none"]
IdleReceiver == [step |-> "idle", name |-> 0, arrived |-> NoPair, doomed |-> {}]
Truncated == [is |-> "truncated"]

OffhostInit ==
  /\ remote = [n \in Names |-> NoPair]
  /\ sender = IdleSender
  /\ receivers = [r \in Receivers |-> IdleReceiver]
  /\ sends = 0
  /\ losses = 0
  /\ reported = {}

-----------------------------------------------------------------------------
(* The sender.                                                             *)
Newest(dir) == CHOOSE n \in Complete(dir) : \A o \in Complete(dir) : o <= n

(* Slip: a complete pair is taken for a good one.                          *)
LatestPairExists == Complete(pairs) # {}

(* select_latest_complete_pair and validate_source_pair: the newest        *)
(* complete pair, or none at all when that one fails its drill.            *)
LatestPairGood ==
  /\ Complete(pairs) # {}
  /\ DrillPasses(Newest(pairs), pairs[Newest(pairs)])

SelectPair ==
  /\ sender.step = "idle" /\ sends < MaxSends
  /\ LatestPairGood
  /\ sender' = [IdleSender EXCEPT !.step = "send", !.name = Newest(pairs)]
  /\ sends' = sends + 1
  /\ UNCHANGED <<remote, receivers, losses, reported>>

(* write_transfer_stream drills once more, then reads the two files; the   *)
(* whole stream arrives and the sender waits.                              *)
SendStream(r) ==
  /\ sender.step = "send" /\ receivers[r].step = "idle"
  /\ DrillPasses(sender.name, pairs[sender.name])
  /\ receivers' = [receivers EXCEPT ![r] =
       [IdleReceiver EXCEPT !.step = "header", !.name = sender.name,
                            !.arrived = pairs[sender.name]]]
  /\ sender' = [sender EXCEPT !.step = "wait", !.via = r]
  /\ UNCHANGED <<remote, sends, losses, reported>>

(* The connection is lost within the database, or the file has gone: the   *)
(* sender raises and the receiver meets the end of the stream.             *)
LoseStream(r) ==
  /\ losses < MaxLosses
  /\ sender.step = "send" /\ receivers[r].step = "idle"
  /\ DrillPasses(sender.name, pairs[sender.name])
  /\ receivers' = [receivers EXCEPT ![r] =
       [IdleReceiver EXCEPT !.step = "header", !.name = sender.name,
                            !.arrived = [pairs[sender.name] EXCEPT !.database = Truncated]]]
  /\ sender' = IdleSender
  /\ losses' = losses + 1
  /\ UNCHANGED <<remote, sends, reported>>

(* The pair was pruned, or no connection is made.                          *)
SendFails ==
  /\ sender.step = "send"
  /\ sender' = IdleSender
  /\ UNCHANGED <<remote, receivers, sends, losses, reported>>

(* communicate(timeout): ssh is killed, the receiver goes on.              *)
GiveUp ==
  /\ losses < MaxLosses
  /\ sender.step = "wait"
  /\ sender' = IdleSender
  /\ losses' = losses + 1
  /\ UNCHANGED <<remote, receivers, sends, reported>>

(* The exit code and the contract line decide what is reported.            *)
ReadReply ==
  /\ sender.step = "wait"
  /\ receivers[sender.via].step \in {"pass", "fail"}
  /\ reported' = IF receivers[sender.via].step = "pass"
                 THEN reported \cup {sender.name} ELSE reported
  /\ sender' = IdleSender
  /\ receivers' = [receivers EXCEPT ![sender.via] = IdleReceiver]
  /\ UNCHANGED <<remote, sends, losses>>

-----------------------------------------------------------------------------
(* The receiver.                                                           *)
At(r, step) == receivers[r].step = step
Reply(r, to) ==
  /\ receivers' = [receivers EXCEPT ![r].step = to]
  /\ UNCHANGED <<sender, sends, losses, reported>>

(* read_header, and neither file may exist.                                *)
CheckDestination(r) ==
  /\ At(r, "header")
  /\ Reply(r, IF remote[receivers[r].name] = NoPair THEN "stage" ELSE "fail")
  /\ UNCHANGED remote

(* Slip: the manifest is checked, the database taken as it came.           *)
AcceptsManifest(name, arrived) ==
  arrived.manifest.is = "manifest" /\ arrived.manifest.backup_file = name

(* _copy_exact gets every byte, and the staged pair passes the drill.      *)
Accepts(name, arrived) ==
  arrived.database # Truncated /\ DrillPasses(name, arrived)

Stage(r) ==
  /\ At(r, "stage")
  /\ Reply(r, IF Accepts(receivers[r].name, receivers[r].arrived)
              THEN "link_database" ELSE "fail")
  /\ UNCHANGED remote

(* Slip: the database is unlinked whoever has linked it.                   *)
TakeBackAnyway(pair, linked) == [pair EXCEPT !.database = Absent]

(* The except clause of _link_pair_without_overwrite.                      *)
TakeBack(pair, linked) == IF linked THEN [pair EXCEPT !.database = Absent] ELSE pair

LinkDatabase(r) ==
  /\ At(r, "link_database")
  /\ LET n == receivers[r].name
     IN  \/ /\ remote[n].database = Absent
            /\ Reply(r, "link_manifest")
            /\ remote' = [remote EXCEPT ![n].database = receivers[r].arrived.database]
         \/ /\ remote[n].database # Absent
            /\ Reply(r, "fail")
            /\ remote' = [remote EXCEPT ![n] = TakeBack(@, FALSE)]

(* The link of the manifest may fail for want of space.                    *)
LinkManifest(r) ==
  /\ At(r, "link_manifest")
  /\ LET n == receivers[r].name
     IN  \/ /\ remote[n].manifest = Absent
            /\ remote' = [remote EXCEPT ![n].manifest = receivers[r].arrived.manifest]
            /\ receivers' = [receivers EXCEPT
                 ![r].step = "prune", ![r].doomed = Surplus(remote', RemoteKeep)]
            /\ UNCHANGED <<sender, sends, losses, reported>>
         \/ /\ Reply(r, "fail")
            /\ remote' = [remote EXCEPT ![n] = TakeBack(@, TRUE)]

(* prune_complete_received_pairs: another receiver may have removed the    *)
(* file already, and unlink raises.                                        *)
PruneRemote(r) ==
  \E n \in receivers[r].doomed :
    /\ \A o \in receivers[r].doomed : n <= o
    /\ At(r, "prune")
    /\ IF remote[n].database = Absent
       THEN Reply(r, "fail") /\ UNCHANGED remote
       ELSE Reply(r, "prune_manifest")
            /\ remote' = [remote EXCEPT ![n].database = Absent]

PruneRemoteManifest(r) ==
  \E n \in receivers[r].doomed :
    /\ \A o \in receivers[r].doomed : n <= o
    /\ At(r, "prune_manifest")
    /\ receivers' = [receivers EXCEPT ![r].step = "prune", ![r].doomed = @ \ {n}]
    /\ remote' = [remote EXCEPT ![n].manifest = Absent]
    /\ UNCHANGED <<sender, sends, losses, reported>>

Pass(r) ==
  At(r, "prune") /\ receivers[r].doomed = {} /\ Reply(r, "pass") /\ UNCHANGED remote

(* Nobody waits for the answer.                                            *)
Unheard(r) ==
  /\ receivers[r].step \in {"pass", "fail"}
  /\ ~(sender.step = "wait" /\ sender.via = r)
  /\ receivers' = [receivers EXCEPT ![r] = IdleReceiver]
  /\ UNCHANGED <<remote, sender, sends, losses, reported>>

(* The process or the machine stops; what is linked stays.  The sender     *)
(* sees the connection end.                                                *)
ReceiverKilled(r) ==
  /\ losses < MaxLosses
  /\ receivers[r].step \notin {"idle", "pass", "fail"}
  /\ receivers' = [receivers EXCEPT ![r] = [IdleReceiver EXCEPT !.step = "fail"]]
  /\ losses' = losses + 1
  /\ UNCHANGED <<remote, sender, sends, reported>>

ReceiverStep(r) ==
  \/ CheckDestination(r) \/ Stage(r) \/ LinkDatabase(r) \/ LinkManifest(r)
  \/ PruneRemote(r) \/ PruneRemoteManifest(r) \/ Pass(r)
  \/ Unheard(r) \/ ReceiverKilled(r)

OffhostStep ==
  \/ SelectPair \/ SendFails \/ GiveUp \/ ReadReply
  \/ \E r \in Receivers : SendStream(r) \/ LoseStream(r) \/ ReceiverStep(r)

-----------------------------------------------------------------------------
(* A pair that looks complete on the other machine is a recovery point     *)
(* there, whatever was cut off or killed on the way                        *)
(* (docs/PHASE_J1_OFFHOST_BACKUP.md:140-146).                              *)
RemotePairsRestore == Complete(remote) \subseteq RecoveryPoints(remote)

(* A copy that was reported a success stays until RemoteKeep newer ones    *)
(* are there, whatever an earlier receiver nobody waits for does next      *)
(* (payment_db_offhost_receiver.py:103-117, 40-53).                        *)
ReportedCopiesKept ==
  \A n \in reported :
    \/ n \in RecoveryPoints(remote)
    \/ Cardinality({ o \in RecoveryPoints(remote) : o > n }) >= RemoteKeep
=============================================================================
