------------------------------- MODULE Gateway -------------------------------
(***************************************************************************)
(* The multi-user gateway (src/ops/multi_user_gateway.py): it registers    *)
(* users, keeps their credentials, starts one dashboard container for each *)
(* and routes requests to it.                                              *)
(*                                                                         *)
(* The server handles each request in a thread of its own; the threads     *)
(* share _registry_lock.  A command of the command line (stop, offboard,   *)
(* clean up, ...) is another process, with a lock of its own that nobody   *)
(* else takes.  Every step that reads or writes the registry file, the     *)
(* secret store, the user's directory or Docker is an action, so a request *)
(* sees what others do between its steps.                                  *)
(*                                                                         *)
(* Left out because no decision reads them: a user's status, display name, *)
(* time stamps and last_client_ip, the ip_map and the audit log.  The      *)
(* saves that write the first three are modelled.  The secret store is the *)
(* Keychain, and nothing is imported from .env files.  Requests all come   *)
(* from the proxy on 127.0.0.1, so the address that the rollback compares  *)
(* always matches.                                                         *)
(***************************************************************************)
EXTENDS Naturals, FiniteSets

CONSTANTS
  Servers,     \* threads of the server process
  Admin,       \* the process of a command, one command after the other
  Identities,  \* Tailscale identities
  Slugs,       \* user slugs; a slug names the container and the directory too
  Nobody, NoSlug,
  MaxPort,     \* bound: registrations stop there
  MaxCommands, \* bound: commands stop there
  Alongside    \* bound: once a command was given, a request begins while at most
               \* so many others are under way

ASSUME GatewayConstantsOK ==
  /\ Admin \notin Servers
  /\ Nobody \notin Identities \cup Servers \cup {Admin}
  /\ NoSlug \notin Slugs
  /\ MaxPort \in Nat
  /\ MaxCommands \in Nat
  /\ Alongside \in Nat

VARIABLES
  registry,    \* the registry file
  copy,        \* what a process has loaded and not yet saved, or the empty registry
  lock,        \* _registry_lock of a process: the thread that holds it
  secrets,     \* the secret store: whose credentials a slug has
  dirs,        \* the user directories
  containers,  \* Docker
  pc, job,     \* where a thread is, and in which request or command
  user,        \* the registry entry the thread works with
  keys,        \* the credentials it has read, while a docker run may need them
  found,       \* cleanup: the containers and directories it will remove
  commands,    \* how many commands have been started
  leaked       \* history: the slugs whose credentials a rollback has left in the
               \* store, until the first command

world == <<secrets, dirs, containers, leaked>>
threads == <<pc, job, user, keys>>
gatewayVars ==
  <<registry, copy, lock, secrets, dirs, containers, pc, job, user, keys, found, commands,
    leaked>>

Threads == Servers \cup {Admin}

\* A process is named after a thread of it: all servers are one process.
Process == {"server", "command"}
ProcessOf(t) == IF t = Admin THEN "command" ELSE "server"

Entry == [identity: Identities, port: Nat]
NoEntry == [identity |-> Nobody, port |-> 0]

\* users, identity_map and next_port.
Registry ==
  [users: [Slugs -> Entry \cup {NoEntry}],
   login: [Identities -> Slugs \cup {NoSlug}],
   next: Nat]

FirstPort == 1
EmptyRegistry ==
  [users |-> [s \in Slugs |-> NoEntry], login |-> [i \in Identities |-> NoSlug],
   next |-> FirstPort]

Container == [state: {"absent", "stopped", "running"}, port: Nat, owner: Identities \cup {Nobody}]
NoContainer == [state |-> "absent", port |-> 0, owner |-> Nobody]

\* The user a thread works with; slug is NoSlug until it is registered.
User == [slug: Slugs \cup {NoSlug}, identity: Identities \cup {Nobody}, port: Nat]
NoUser == [slug |-> NoSlug, identity |-> Nobody, port |-> 0]

Job == {"none", "route", "setup", "start", "stop", "restart", "remove",
        "delete_user", "delete_secrets", "offboard", "cleanup"}

PC == {"idle", "recording", "creating", "storing", "ensuring", "finding", "starting",
       "launching", "waiting", "saving", "removing", "deleting", "trashing",
       "unregistering", "stopping", "restarting", "listing", "scanning", "cleaning"}

GatewayTypeOK ==
  /\ registry \in Registry
  /\ copy \in [Process -> Registry]
  /\ lock \in [Process -> Threads \cup {Nobody}]
  /\ secrets \in [Slugs -> Identities \cup {Nobody}]
  /\ dirs \in SUBSET Slugs
  /\ containers \in [Slugs -> Container]
  /\ pc \in [Threads -> PC]
  /\ job \in [Threads -> Job]
  /\ user \in [Threads -> User]
  /\ \A t \in Threads :
       /\ pc[t] = "creating" => user[t].identity \in Identities
       /\ pc[t] \in {"recording", "storing", "ensuring"} => user[t].slug \in Slugs
  /\ keys \in [Threads -> Identities \cup {Nobody}]
  /\ found \in [containers: SUBSET Slugs, dirs: SUBSET Slugs]
  /\ commands \in 0..MaxCommands
  /\ leaked \in SUBSET Slugs

Nothing == [containers |-> {}, dirs |-> {}]

GatewayInit ==
  /\ registry = EmptyRegistry
  /\ copy = [p \in Process |-> EmptyRegistry]
  /\ lock = [p \in Process |-> Nobody]
  /\ secrets = [s \in Slugs |-> Nobody]
  /\ dirs = {}
  /\ containers = [s \in Slugs |-> NoContainer]
  /\ pc = [t \in Threads |-> "idle"]
  /\ job = [t \in Threads |-> "none"]
  /\ user = [t \in Threads |-> NoUser]
  /\ keys = [t \in Threads |-> Nobody]
  /\ found = Nothing
  /\ commands = 0
  /\ leaked = {}

-----------------------------------------------------------------------------
(* Threads *)

Go(t, next) == pc' = [pc EXCEPT ![t] = next]

\* The request is answered, or the command exits.
End(t) ==
  /\ Go(t, "idle")
  /\ job' = [job EXCEPT ![t] = "none"]
  /\ user' = [user EXCEPT ![t] = NoUser]
  /\ keys' = [keys EXCEPT ![t] = Nobody]

\* The thread goes on and has no more use for the credentials.
GoWithoutKeys(t, next) ==
  /\ Go(t, next)
  /\ keys' = [keys EXCEPT ![t] = Nobody]
  /\ UNCHANGED <<job, user>>

\* An exception: create_user rolls back, all others give up.
Raise(t) == IF job[t] = "setup" THEN GoWithoutKeys(t, "removing") ELSE End(t)

Registered(r, s) == r.users[s] # NoEntry

UserOf(r, s) == [slug |-> s, identity |-> r.users[s].identity, port |-> r.users[s].port]

\* user_for_identity
SlugFor(r, i) ==
  IF r.login[i] # NoSlug /\ Registered(r, r.login[i]) THEN r.login[i] ELSE NoSlug

\* The bound on requests at a time.
WithinBound ==
  commands > 0 => Cardinality({u \in Servers : pc[u] # "idle"}) <= Alongside

\* route_or_setup, or a setup page asked for by a user who has an entry.
Route(t) ==
  /\ t \in Servers /\ pc[t] = "idle" /\ WithinBound
  /\ \E i \in Identities :
       /\ SlugFor(registry, i) # NoSlug
       /\ user' = [user EXCEPT ![t] = UserOf(registry, SlugFor(registry, i))]
  /\ job' = [job EXCEPT ![t] = "route"]
  /\ Go(t, "recording")
  /\ UNCHANGED <<registry, copy, lock, world, keys, found, commands>>

\* handle_setup of an identity that has no entry.
Setup(t) ==
  /\ t \in Servers /\ pc[t] = "idle" /\ WithinBound
  /\ \E i \in Identities :
       /\ SlugFor(registry, i) = NoSlug
       /\ user' = [user EXCEPT ![t] = [NoUser EXCEPT !.identity = i]]
  /\ job' = [job EXCEPT ![t] = "setup"]
  /\ Go(t, "creating")
  /\ UNCHANGED <<registry, copy, lock, world, keys, found, commands>>

-----------------------------------------------------------------------------
(* Updates of the registry: load and save under the lock of the process *)

Updates == {"recording", "creating", "saving", "unregistering"}

Load(t) ==
  /\ pc[t] \in Updates
  /\ lock[ProcessOf(t)] = Nobody
  /\ lock' = [lock EXCEPT ![ProcessOf(t)] = t]
  /\ copy' = [copy EXCEPT ![ProcessOf(t)] = registry]
  /\ UNCHANGED <<registry, world, threads, found, commands>>

Loaded(t) == copy[ProcessOf(t)]

Unlock(t) ==
  /\ lock[ProcessOf(t)] = t
  /\ lock' = [lock EXCEPT ![ProcessOf(t)] = Nobody]
  /\ copy' = [copy EXCEPT ![ProcessOf(t)] = EmptyRegistry]

\* record_user_client_ip; update_user_status and the end of create_user are
\* alike: if the entry is there, the file is written as it was loaded.
SaveIfThere(t) ==
  registry' = IF Registered(Loaded(t), user[t].slug) THEN Loaded(t) ELSE registry

RecordUserClientIp(t) ==
  /\ pc[t] = "recording" /\ Unlock(t)
  /\ SaveIfThere(t)
  /\ \/ End(t)
     \/ Go(t, "ensuring") /\ UNCHANGED <<job, user, keys>>
  /\ UNCHANGED <<world, found, commands>>

UpdateUserStatus(t) ==
  /\ pc[t] = "saving" /\ Unlock(t)
  /\ SaveIfThere(t)
  /\ End(t)
  /\ UNCHANGED <<world, found, commands>>

\* Mutant: ports are numbered by the users there are.
PortByCount(r, p) == p = FirstPort + Cardinality({s \in Slugs : Registered(r, s)})

\* next_available_port: the first port from next_port on that no user has.
NextAvailablePort(r, p) ==
  LET used == {r.users[s].port : s \in Slugs}
  IN  p >= r.next /\ p \notin used /\ r.next..(p - 1) \subseteq used

\* Mutant: the slug is not checked against the users there are.
AnySlug(r) == Slugs

\* unique_slug: the requested name, or the name with a number, is free.
FreeSlugs(r) == {s \in Slugs : ~Registered(r, s)}

\* create_user up to its first save.
Register(t) ==
  /\ pc[t] = "creating" /\ Unlock(t)
  /\ LET r == Loaded(t)
         i == user[t].identity
     IN  \/ /\ SlugFor(r, i) # NoSlug
            /\ End(t)
            /\ UNCHANGED registry
         \/ /\ SlugFor(r, i) = NoSlug
            /\ \E s \in FreeSlugs(r), p \in FirstPort..MaxPort :
                 /\ NextAvailablePort(r, p)
                 /\ registry' =
                      [users |-> [r.users EXCEPT ![s] = [identity |-> i, port |-> p]],
                       login |-> [r.login EXCEPT ![i] = s],
                       next |-> p + 1]
                 /\ user' = [user EXCEPT ![t] = [slug |-> s, identity |-> i, port |-> p]]
            /\ Go(t, "storing")
            /\ UNCHANGED <<job, keys>>
  /\ UNCHANGED <<world, found, commands>>

\* delete_user
WithoutUser(r, s) ==
  [r EXCEPT !.users[s] = NoEntry,
            !.login = [i \in Identities |-> IF @[i] = s THEN NoSlug ELSE @[i]]]

\* Mutant: the rollback forgets identity_map.
WithoutEntry(r, u) == [r EXCEPT !.users[u.slug] = NoEntry]

\* The rollback of create_user removes the slug's entry, but no mapping of
\* another identity.
WithoutFailed(r, u) ==
  [r EXCEPT !.users[u.slug] = NoEntry,
            !.login[u.identity] = IF @ = u.slug THEN NoSlug ELSE @]

Unregister(t) ==
  /\ pc[t] = "unregistering" /\ Unlock(t)
  /\ registry' = IF job[t] = "setup" THEN WithoutFailed(Loaded(t), user[t])
                 ELSE WithoutUser(Loaded(t), user[t].slug)
  /\ End(t)
  /\ UNCHANGED <<world, found, commands>>

-----------------------------------------------------------------------------
(* create_user and ensure_container *)

\* Directories, config, credentials, placeholder; any of them may fail.
StoreCredentials(t) ==
  /\ pc[t] = "storing"
  /\ \/ UNCHANGED <<dirs, secrets>> /\ Raise(t)
     \/ /\ dirs' = dirs \cup {user[t].slug}
        /\ \/ UNCHANGED secrets /\ Raise(t)
           \/ /\ secrets' = [secrets EXCEPT ![user[t].slug] = user[t].identity]
              /\ \/ Go(t, "ensuring") /\ UNCHANGED <<job, user, keys>>
                 \/ Raise(t)
  /\ UNCHANGED <<registry, copy, lock, containers, found, commands, leaked>>

GetUserCredentials(t) ==
  /\ pc[t] = "ensuring"
  /\ \/ /\ secrets[user[t].slug] # Nobody
        /\ keys' = [keys EXCEPT ![t] = secrets[user[t].slug]]
        /\ Go(t, "finding") /\ UNCHANGED <<job, user>>
     \/ Raise(t)
  /\ UNCHANGED <<registry, copy, lock, world, found, commands>>

\* ensure_container has returned.
Ensured(t) ==
  IF job[t] = "route" THEN End(t) ELSE GoWithoutKeys(t, "saving")

\* docker ps and docker inspect
FindContainer(t) ==
  /\ pc[t] = "finding"
  /\ LET state == containers[user[t].slug].state
     IN  \/ state = "running" /\ Ensured(t)
         \/ state = "stopped" /\ GoWithoutKeys(t, "starting")
         \/ state = "absent" /\ Go(t, "launching") /\ UNCHANGED <<job, user, keys>>
  /\ UNCHANGED <<registry, copy, lock, world, found, commands>>

PortInUse(p) == \E s \in Slugs : containers[s].state = "running" /\ containers[s].port = p

MayRun(s) ==
  \/ containers[s].state = "running"
  \/ containers[s].state = "stopped" /\ ~PortInUse(containers[s].port)

\* docker start, docker restart: fail if the container is gone or its port taken.
StartContainer(t) ==
  /\ pc[t] \in {"starting", "restarting"}
  /\ \/ /\ MayRun(user[t].slug)
        /\ containers' = [containers EXCEPT ![user[t].slug].state = "running"]
        /\ GoWithoutKeys(t, "waiting")
     \/ Raise(t) /\ UNCHANGED containers
  /\ UNCHANGED <<registry, copy, lock, secrets, dirs, found, commands, leaked>>

\* docker build and docker run: the name must be free; if the port is not, the
\* container is created and not started.
RunContainer(t) ==
  /\ pc[t] = "launching"
  /\ LET s == user[t].slug
     IN  \/ /\ containers[s].state = "absent"
            /\ containers' = [containers EXCEPT ![s] =
                 [state |-> IF PortInUse(user[t].port) THEN "stopped" ELSE "running",
                  port |-> user[t].port, owner |-> keys[t]]]
            /\ IF PortInUse(user[t].port) THEN Raise(t)
               ELSE GoWithoutKeys(t, "waiting")
         \/ Raise(t) /\ UNCHANGED containers
  /\ UNCHANGED <<registry, copy, lock, secrets, dirs, found, commands, leaked>>

\* wait_for_user_http: the container answers, or 45 seconds pass.
WaitForUserHttp(t) ==
  /\ pc[t] = "waiting"
  /\ Ensured(t) \/ Raise(t)
  /\ UNCHANGED <<registry, copy, lock, world, found, commands>>

\* docker rm -f: whether it has failed is not looked at.
Removes(s) == containers' \in {containers, [containers EXCEPT ![s] = NoContainer]}

RemoveContainer(t) ==
  /\ pc[t] = "removing"
  /\ Removes(user[t].slug)
  /\ Go(t, IF job[t] = "remove" THEN "saving" ELSE "deleting")
  /\ UNCHANGED <<registry, copy, lock, secrets, dirs, leaked, job, user, keys, found, commands>>

\* Mutant: the rollback leaves the credentials.
KeepUserCredentials(t) ==
  /\ pc[t] = "deleting"
  /\ Go(t, "unregistering")
  /\ UNCHANGED <<registry, copy, lock, world, job, user, keys, found, commands>>

KeptIn(slug) == {s \in Slugs : commands = 0 /\ s = slug /\ secrets[s] # Nobody}

\* delete_user_credentials: whether the Keychain has refused is not looked at.
DeleteUserCredentials(t) ==
  /\ pc[t] = "deleting"
  /\ \/ secrets' = [secrets EXCEPT ![user[t].slug] = Nobody] /\ UNCHANGED leaked
     \/ leaked' = leaked \cup KeptIn(user[t].slug) /\ UNCHANGED secrets
  /\ CASE job[t] = "setup" -> Go(t, "unregistering") /\ UNCHANGED <<job, user, keys>>
       [] job[t] = "offboard" -> Go(t, "trashing") /\ UNCHANGED <<job, user, keys>>
       [] OTHER -> End(t)
  /\ UNCHANGED <<registry, copy, lock, dirs, containers, found, commands>>

-----------------------------------------------------------------------------
(* Commands *)

\* stop_user, start_user, restart_user, remove_user_container and
\* offboard_user begin with the entry of the user.
FirstStep(command) ==
  CASE command = "stop" -> "stopping"
    [] command = "start" -> "ensuring"
    [] command = "restart" -> "restarting"
    [] command = "remove" -> "removing"
    [] command = "offboard" -> "removing"

NewCommand ==
  /\ pc[Admin] = "idle"
  /\ commands < MaxCommands
  /\ commands' = commands + 1
  /\ leaked' = {}
  /\ UNCHANGED <<secrets, dirs, containers>>

Command(command, s) ==
  /\ NewCommand
  /\ Registered(registry, s)
  /\ user' = [user EXCEPT ![Admin] = UserOf(registry, s)]
  /\ job' = [job EXCEPT ![Admin] = command]
  /\ Go(Admin, FirstStep(command))
  /\ UNCHANGED <<registry, copy, lock, keys, found>>

\* delete_user and delete_user_secrets take any slug; delete_user takes no
\* lock, which the lock of a process of its own is as good as.
SlugCommand(command, next, s) ==
  /\ NewCommand
  /\ user' = [user EXCEPT ![Admin] = [NoUser EXCEPT !.slug = s]]
  /\ job' = [job EXCEPT ![Admin] = command]
  /\ Go(Admin, next)
  /\ UNCHANGED <<registry, copy, lock, keys, found>>

\* docker stop
StopContainer(t) ==
  /\ pc[t] = "stopping"
  /\ \/ /\ containers[user[t].slug].state # "absent"
        /\ containers' = [containers EXCEPT ![user[t].slug].state = "stopped"]
        /\ Go(t, "saving") /\ UNCHANGED <<job, user, keys>>
     \/ Raise(t) /\ UNCHANGED containers
  /\ UNCHANGED <<registry, copy, lock, secrets, dirs, found, commands, leaked>>

TrashUserDir(t) ==
  /\ pc[t] = "trashing"
  /\ \/ /\ dirs' = dirs \ {user[t].slug}
        /\ Go(t, "unregistering") /\ UNCHANGED <<job, user, keys>>
     \/ End(t) /\ UNCHANGED dirs
  /\ UNCHANGED <<registry, copy, lock, secrets, containers, found, commands, leaked>>

\* cleanup_orphans: list_orphans reads the registry without the lock ...
ListOrphans ==
  /\ NewCommand
  /\ copy' = [copy EXCEPT !["command"] = registry]
  /\ job' = [job EXCEPT ![Admin] = "cleanup"]
  /\ Go(Admin, "listing")
  /\ UNCHANGED <<registry, lock, user, keys, found>>

\* ... then asks Docker ...
FindOrphanContainers ==
  /\ pc[Admin] = "listing"
  /\ found' = [found EXCEPT !.containers =
       {s \in Slugs : containers[s].state # "absent" /\ ~Registered(Loaded(Admin), s)}]
  /\ Go(Admin, "scanning")
  /\ UNCHANGED <<registry, copy, lock, world, job, user, keys, commands>>

\* ... then looks at the directories.
FindStaleDirs ==
  /\ pc[Admin] = "scanning"
  /\ found' = [found EXCEPT !.dirs = {s \in dirs : ~Registered(Loaded(Admin), s)}]
  /\ copy' = [copy EXCEPT !["command"] = EmptyRegistry]
  /\ Go(Admin, "cleaning")
  /\ UNCHANGED <<registry, lock, world, job, user, keys, commands>>

CleanUpContainer ==
  /\ pc[Admin] = "cleaning"
  /\ \E s \in found.containers :
       /\ Removes(s)
       /\ found' = [found EXCEPT !.containers = @ \ {s}]
  /\ UNCHANGED <<registry, copy, lock, secrets, dirs, leaked, threads, commands>>

CleanUpDir ==
  /\ pc[Admin] = "cleaning" /\ found.containers = {}
  /\ \E s \in found.dirs :
       /\ dirs' = dirs \ {s}
       /\ found' = [found EXCEPT !.dirs = @ \ {s}]
  /\ UNCHANGED <<registry, copy, lock, secrets, containers, leaked, threads, commands>>

CleanedUp ==
  /\ pc[Admin] = "cleaning" /\ found = Nothing
  /\ End(Admin)
  /\ UNCHANGED <<registry, copy, lock, world, found, commands>>

\* A process dies, and with it its requests or its command; the server is
\* started anew.
GatewayCrash(p) ==
  /\ pc' = [t \in Threads |-> IF ProcessOf(t) = p THEN "idle" ELSE pc[t]]
  /\ job' = [t \in Threads |-> IF ProcessOf(t) = p THEN "none" ELSE job[t]]
  /\ user' = [t \in Threads |-> IF ProcessOf(t) = p THEN NoUser ELSE user[t]]
  /\ keys' = [t \in Threads |-> IF ProcessOf(t) = p THEN Nobody ELSE keys[t]]
  /\ lock' = [lock EXCEPT ![p] = Nobody]
  /\ copy' = [copy EXCEPT ![p] = EmptyRegistry]
  /\ found' = IF p = "command" THEN Nothing ELSE found
  /\ UNCHANGED <<registry, world, commands>>

-----------------------------------------------------------------------------
RegistryStep(t) ==
  Load(t) \/ RecordUserClientIp(t) \/ UpdateUserStatus(t) \/ Register(t) \/ Unregister(t)

ContainerStep(t) ==
  \/ StoreCredentials(t) \/ GetUserCredentials(t)
  \/ FindContainer(t) \/ StartContainer(t) \/ RunContainer(t) \/ WaitForUserHttp(t)
  \/ RemoveContainer(t) \/ DeleteUserCredentials(t)

CommandStep ==
  \/ \E s \in Slugs :
       \/ \E c \in {"stop", "start", "restart", "remove", "offboard"} : Command(c, s)
       \/ SlugCommand("delete_user", "unregistering", s)
       \/ SlugCommand("delete_secrets", "deleting", s)
  \/ StopContainer(Admin) \/ TrashUserDir(Admin)
  \/ ListOrphans \/ FindOrphanContainers \/ FindStaleDirs
  \/ CleanUpContainer \/ CleanUpDir \/ CleanedUp

GatewayNext ==
  \/ \E t \in Threads : Route(t) \/ Setup(t) \/ RegistryStep(t) \/ ContainerStep(t)
  \/ CommandStep
  \/ \E p \in Process : GatewayCrash(p)

GatewaySpec == GatewayInit /\ [][GatewayNext]_gatewayVars
-----------------------------------------------------------------------------
(* Properties *)

\* No two users have one port, whatever requests, commands and lost updates of
\* the file do: a save may undo another, but it undoes users and next_port
\* together.
PortsDiffer ==
  \A r, s \in Slugs :
    Registered(registry, r) /\ Registered(registry, s)
      /\ registry.users[r].port = registry.users[s].port => r = s

\* An identity is routed to a slug of its own, and what answers on the port of
\* a user is that user's container and runs with that user's credentials: no late
\* docker run, rollback, container that outlives its removal or reuse of a slug
\* mixes two users up, as long as no command interferes.  The one exception is a
\* slug whose credentials a rollback tried to delete and the store kept.
RoutedToOwn ==
  commands = 0 =>
    /\ \A i \in Identities :
         LET s == SlugFor(registry, i) IN s # NoSlug => registry.users[s].identity = i
    /\ \A r, s \in Slugs :
         /\ Registered(registry, r)
         /\ containers[s].state = "running"
         /\ containers[s].port = registry.users[r].port
         => r = s /\ (containers[s].owner = registry.users[r].identity \/ s \in leaked)

\* An entry that changes is taken out by the request that put it there, and its
\* credentials are gone, or were asked to be.
OwnRollback ==
  \A s \in Slugs :
    Registered(registry, s) /\ registry'.users[s] # registry.users[s] =>
      \E t \in Servers :
        /\ pc[t] = "unregistering" /\ user[t] = UserOf(registry, s)
        /\ secrets[s] = Nobody \/ s \in leaked

\* The server takes an entry out of the registry only in the rollback of the
\* request that put it there, and never changes it otherwise: no two requests
\* are given one slug, and a rollback cannot hit the user who came after.
OnlyOwnRollback == [][commands' = 0 => OwnRollback]_gatewayVars

-----------------------------------------------------------------------------
(* The inductive invariant *)

PortsOK(r) ==
  /\ FirstPort <= r.next
  /\ \A s \in Slugs : Registered(r, s) => r.users[s].port < r.next
  /\ \A q, s \in Slugs :
       Registered(r, q) /\ Registered(r, s) /\ r.users[q].port = r.users[s].port => q = s

\* The mappings and the entries agree.
LoginOK ==
  /\ \A i \in Identities : LET s == registry.login[i] IN
       s # NoSlug => Registered(registry, s) /\ registry.users[s].identity = i
  /\ \A s \in Slugs :
       Registered(registry, s) => registry.login[registry.users[s].identity] = s

SecretsOK ==
  \A s \in Slugs \ leaked : secrets[s] # Nobody =>
    Registered(registry, s) /\ registry.users[s].identity = secrets[s]

\* Who has port p is this identity under this slug, if it is anybody's.
Whose(p, s, i) ==
  /\ p < registry.next
  /\ \A r \in Slugs :
       Registered(registry, r) /\ registry.users[r].port = p
         => r = s /\ registry.users[r].identity = i

\* The same of credentials i, which may be a former user's in a leaked slug.
Holds(p, s, i) ==
  \/ Whose(p, s, i)
  \/ s \in leaked /\ \E j \in Identities : Whose(p, s, j)

ContainersOK ==
  \A s \in Slugs : containers[s].state # "absent" =>
    Holds(containers[s].port, s, containers[s].owner)

Creating == {"storing", "ensuring", "finding", "starting", "launching", "waiting",
             "saving", "removing", "deleting", "unregistering"}

\* The requests that have registered a user and not yet been answered.
InSetup(t) == job[t] = "setup" /\ pc[t] \in Creating

RequestOK(t) ==
  /\ pc[t] \in {"idle", "recording", "creating"} \cup Creating
  /\ pc[t] = "idle" \/ job[t] \in {"route", "setup"}
  /\ pc[t] \in {"creating", "storing", "saving", "removing", "deleting", "unregistering"} =>
       job[t] = "setup"
  /\ pc[t] = "recording" => job[t] = "route"
  /\ pc[t] # "idle" => user[t].identity \in Identities
  /\ pc[t] \in {"recording"} \cup Creating =>
       /\ user[t].slug \in Slugs
       /\ Whose(user[t].port, user[t].slug, user[t].identity)
  /\ pc[t] \in {"finding", "launching"} =>
       Holds(user[t].port, user[t].slug, keys[t])
  /\ InSetup(t) => Registered(registry, user[t].slug)
                    /\ registry.users[user[t].slug].port = user[t].port
  /\ pc[t] = "unregistering" => secrets[user[t].slug] = Nobody \/ user[t].slug \in leaked

RequestsOK ==
  /\ \A t \in Servers : RequestOK(t)
  /\ \A t, v \in Servers :
       InSetup(t) /\ InSetup(v) /\ user[t].slug = user[v].slug => t = v

LockOK ==
  LET t == lock["server"] IN
    t # Nobody => t \in Servers /\ pc[t] \in Updates /\ copy["server"] = registry

Undisturbed ==
  /\ pc[Admin] = "idle" /\ lock["command"] = Nobody
  /\ LockOK /\ LoginOK /\ SecretsOK /\ ContainersOK /\ RequestsOK

GatewayInv ==
  /\ GatewayTypeOK
  /\ PortsOK(registry) /\ \A p \in Process : PortsOK(copy[p])
  /\ commands = 0 => Undisturbed
=============================================================================
