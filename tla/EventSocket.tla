----------------------------- MODULE EventSocket -----------------------------
(***************************************************************************)
(* The path of the completion socket (CompletionEventListener, ipc.rs).  A *)
(* daemon looks whether there is a file, removes it and binds, in separate *)
(* steps; when it ends it removes whatever is at the path, and when it is  *)
(* killed it leaves its file behind.  Nothing stops a second daemon.       *)
(***************************************************************************)
CONSTANTS
    Runners,  \* processes that may be daemons
    Nobody

ASSUME SocketAssumption ==
    /\ Nobody \notin Runners
    /\ {"absent", "stale"} \cap Runners = {}

VARIABLES
    socket,   \* whose socket is at the path; also "absent" or "stale"
    binding,  \* how far each daemon is with the socket
    \* history
    sole,     \* the daemon that has been the only one since it began to bind
    refused   \* has such a daemon failed to bind?

socket_vars == <<socket, binding, sole, refused>>

SocketInit ==
    /\ socket = "absent"
    /\ binding = [r \in Runners |-> "none"]
    /\ sole = Nobody
    /\ refused = FALSE

BeginBind(r) ==
    /\ binding[r] = "none"
    /\ binding' = [binding EXCEPT ![r] = "exists"]
    /\ sole' = IF \A s \in Runners : binding[s] = "none" THEN r ELSE Nobody
    /\ UNCHANGED <<socket, refused>>

(* Faulty: a file that is there is not removed. *)
ExistsOnly(r) ==
    /\ binding[r] = "exists"
    /\ binding' = [binding EXCEPT ![r] = "bind"]
    /\ UNCHANGED <<socket, sole, refused>>

Exists(r) ==
    /\ binding[r] = "exists"
    /\ binding' = [binding EXCEPT ![r] = IF socket = "absent" THEN "bind"
                                         ELSE "remove"]
    /\ UNCHANGED <<socket, sole, refused>>

RemoveFile(r) ==
    /\ binding[r] = "remove"
    /\ socket # "absent"
    /\ socket' = "absent"
    /\ binding' = [binding EXCEPT ![r] = "bind"]
    /\ UNCHANGED <<sole, refused>>

Bind(r) ==
    /\ binding[r] = "bind"
    /\ socket = "absent"
    /\ socket' = r
    /\ binding' = [binding EXCEPT ![r] = "serving"]
    /\ UNCHANGED <<sole, refused>>

Unbound(r) ==
    /\ binding' = [binding EXCEPT ![r] = "none"]
    /\ sole' = IF sole = r THEN Nobody ELSE sole

(* The file was removed by another daemon, or another one has bound first:  *)
(* the daemon ends with this error.                                         *)
BindError(r) ==
    /\ \/ binding[r] = "remove" /\ socket = "absent"
       \/ binding[r] = "bind" /\ socket # "absent"
    /\ Unbound(r)
    /\ refused' = (refused \/ sole = r)
    /\ UNCHANGED socket

(* Drop *)
Close(r) ==
    /\ binding[r] = "serving"
    /\ socket' = "absent"
    /\ Unbound(r)
    /\ UNCHANGED refused

(* A daemon that is killed. *)
Abandon(r) ==
    /\ socket' = IF socket = r THEN "stale" ELSE socket
    /\ Unbound(r)
    /\ UNCHANGED refused

BindStep(r) == Exists(r) \/ RemoveFile(r) \/ Bind(r)

(* The types of the socket and of what the daemons do with it. *)
SocketTypeOK ==
    /\ socket \in {"absent", "stale"} \cup Runners
    /\ binding \in [Runners -> {"none", "exists", "remove", "bind", "serving"}]
    /\ sole \in Runners \cup {Nobody}
    /\ refused \in BOOLEAN

(* ipc.rs: a daemon that runs alone gets the socket, whatever an earlier    *)
(* one has left behind, and keeps it: as long as no other daemon has        *)
(* started since, its clients reach it.                                     *)
SocketServed ==
    /\ ~ refused
    /\ sole # Nobody /\ binding[sole] = "serving" => socket = sole

(* Why: a daemon that is alone finds the path as its last step has left it. *)
SocketInv ==
    /\ SocketTypeOK
    /\ SocketServed
    /\ sole # Nobody =>
          /\ binding[sole] # "none"
          /\ \A r \in Runners \ {sole} : binding[r] = "none"
          /\ binding[sole] = "remove" => socket # "absent"
          /\ binding[sole] = "bind" => socket = "absent"
=============================================================================
