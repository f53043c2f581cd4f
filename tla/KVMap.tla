------------------------------- MODULE KVMap -------------------------------
(***************************************************************************)
(* What the CHIME index promises to its clients: a linearizable map from   *)
(* keys to values.  An operation is invoked, takes effect at one instant   *)
(* between its invocation and its response, and responds.  `ChimeTree'     *)
(* implements this specification (see KV in that module).                  *)
(***************************************************************************)
EXTENDS Naturals

CONSTANTS Clients,     \* the coroutines that issue operations
          UserKeys,    \* keys a client may use (the ghost key is not one)
          Vals,        \* values a client may write
          kValueNull   \* what a search reports for a key that is not there

VARIABLES store,       \* the map
          status,      \* per client: "idle", "pending" or "done"
          request,     \* per client: the operation last invoked
          answer       \* per client: what a search that took effect saw

mapVars == <<store, status, request, answer>>

Requests == [op : {"insert", "update", "search"}, k : UserKeys,
             v : Vals \cup {kValueNull}]

\* What a client that has no operation is given.
NoRequest == [op |-> "search", k |-> 1, v |-> kValueNull]

MapTypeOK ==
  /\ store \in [UserKeys -> Vals \cup {kValueNull}]
  /\ status \in [Clients -> {"idle", "pending", "done"}]
  /\ request \in [Clients -> Requests]
  /\ answer \in [Clients -> Vals \cup {kValueNull}]

MapInit ==
  /\ store = [k \in UserKeys |-> kValueNull]
  /\ status = [c \in Clients |-> "idle"]
  /\ request = [c \in Clients |-> NoRequest]
  /\ answer = [c \in Clients |-> kValueNull]

Invoke(c) ==
  /\ status[c] = "idle"
  /\ \E r \in Requests : request' = [request EXCEPT ![c] = r]
  /\ status' = [status EXCEPT ![c] = "pending"]
  /\ UNCHANGED <<store, answer>>

\* The instant at which a pending operation takes effect.
TakeEffect(c) ==
  /\ status[c] = "pending"
  /\ status' = [status EXCEPT ![c] = "done"]
  /\ \/ /\ request[c].op = "search"
        /\ answer' = [answer EXCEPT ![c] = store[request[c].k]]
        /\ UNCHANGED store
     \/ /\ request[c].op # "search"
        /\ store' = [store EXCEPT ![request[c].k] = request[c].v]
        /\ UNCHANGED answer
  /\ UNCHANGED request

Respond(c) ==
  /\ status[c] = "done"
  /\ status' = [status EXCEPT ![c] = "idle"]
  /\ request' = [request EXCEPT ![c] = NoRequest]
  /\ answer' = [answer EXCEPT ![c] = kValueNull]
  /\ UNCHANGED store

MapNext == \E c \in Clients : Invoke(c) \/ TakeEffect(c) \/ Respond(c)

MapSpec == MapInit /\ [][MapNext]_mapVars
=============================================================================
