------------------------------ MODULE Clients ------------------------------
(***************************************************************************)
(* The cluster with the clients of its append command: each command is     *)
(* appended by one process (main.rs, Commands::Append) that connects to a  *)
(* node of its choice, waits for the answer and reports it; it is not sent *)
(* to another node and not tried again.                                    *)
(*                                                                         *)
(* While a client waits in the listener's backlog nothing depends on it,   *)
(* so its connection and the moment it is accepted are one step; a client  *)
(* whose node dies before that moment is one that finds nobody listening.  *)
(***************************************************************************)
EXTENDS ReplicationProperties

VARIABLE client   \* client[command]: how far its process is, and at which node

clientVars == <<vars, client>>

\* new: not accepted yet; served: its entry is in the log and is being
\* replicated; then what it reports.
Progress == {"new", "served", "succeeded", "refused", "failed"}

Client(progress, node) == [progress |-> progress, node |-> node]

ClientInit == Init /\ client = [command \in Command |-> Client("new", None)]

Report(command, progress, i) ==
    client' = [client EXCEPT ![command] = Client(progress, i)]

IsNew(command) == client[command].progress = "new"

\* Client::append_command finds nobody listening.
Unreachable(command, i) ==
    /\ IsNew(command)
    /\ ~IsUp(i)
    /\ Report(command, "failed", i)
    /\ UNCHANGED vars

\* A leader appends the command; the client has its answer at the end of the
\* round of replication.
AcceptedByLeader(command, i) ==
    /\ IsNew(command)
    /\ ClientAppend(i, command)
    /\ Report(command, "served", i)

\* Any other node answers success: false at once, with its leader_id.
RefusedByFollower(command, i) ==
    /\ IsNew(command)
    /\ call[i].op = "idle"
    /\ state[i] # "Leader"
    /\ Report(command, "refused", i)
    /\ UNCHANGED vars

\* What a client notices of a step of its node: the answer of append_command,
\* which is success whatever was replicated or committed, and the end of the
\* connection when the node dies.
Noticed(c) ==
    CASE c.progress = "served" /\ call'[c.node].op = "idle" ->
            Client("succeeded", c.node)
      [] c.progress = "served" /\ call'[c.node].op = "crashed" ->
            Client("failed", c.node)
      [] OTHER -> c

Notice == client' = [command \in Command |-> Noticed(client[command])]

ClientNext ==
    \/ \E command \in Command, i \in Server :
          \/ Unreachable(command, i)
          \/ AcceptedByLeader(command, i)
          \/ RefusedByFollower(command, i)
    \/ \E i \in Server : (NodeStep(i) \/ Crash(i) \/ Restart(i)) /\ Notice

ClientSpec == ClientInit /\ [][ClientNext]_clientVars

-----------------------------------------------------------------------------
(* Properties *)

Places(command, j) == {n \in DOMAIN store[j].disk : store[j].disk[n].command = command}

\* What a client is told stays so, through every crash and restart that
\* follows, as long as one node leads: a command reported as appended is in the
\* log file of the node that answered, committed or not and on no other node
\* perhaps, and one that was refused is nowhere.
AnswersTruthful ==
    \A command \in Command :
        /\ client[command].progress = "succeeded" =>
              Places(command, client[command].node) # {}
        /\ client[command].progress \in {"new", "refused"} =>
              \A j \in Server : Places(command, j) = {}
=============================================================================
