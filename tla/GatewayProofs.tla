---------------------------- MODULE GatewayProofs ----------------------------
(***************************************************************************)
(* Proofs about Gateway: for any number of server threads, users, slugs    *)
(* and commands, ports are never shared; while no command runs, users are  *)
(* never mixed up.                                                         *)
(***************************************************************************)
EXTENDS Gateway, TLAPS

USE GatewayConstantsOK

-----------------------------------------------------------------------------
(* Types *)

LEMMA InitType == GatewayInit => GatewayTypeOK
  BY DEF GatewayInit, GatewayTypeOK, EmptyRegistry, Registry, Entry, NoEntry, NoContainer,
         Container, User, NoUser, Nothing, FirstPort, PC, Job, Threads, Process

\* What the registry becomes is a registry.
LEMMA UserOfType ==
  ASSUME NEW r \in Registry, NEW s \in Slugs, Registered(r, s)
  PROVE  /\ UserOf(r, s) \in User
         /\ UserOf(r, s).identity \in Identities /\ UserOf(r, s).slug = s
  BY DEF Registered, UserOf, User, Registry, Entry, NoEntry

LEMMA WithoutUserType ==
  ASSUME NEW r \in Registry, NEW s \in Slugs \cup {NoSlug}
  PROVE  WithoutUser(r, s) \in Registry
  BY DEF WithoutUser, Registry

LEMMA WithoutFailedType ==
  ASSUME NEW r \in Registry, NEW u \in User
  PROVE  WithoutFailed(r, u) \in Registry
  BY DEF WithoutFailed, Registry

UsersTyped ==
  \A v \in Threads :
    /\ pc'[v] = "creating" => user'[v].identity \in Identities
    /\ pc'[v] \in {"recording", "storing", "ensuring"} => user'[v].slug \in Slugs

LEMMA EndType ==
  ASSUME GatewayTypeOK, NEW t \in Threads, End(t)
  PROVE  /\ pc' \in [Threads -> PC] /\ job' \in [Threads -> Job]
         /\ user' \in [Threads -> User] /\ keys' \in [Threads -> Identities \cup {Nobody}]
         /\ UsersTyped
  BY DEF GatewayTypeOK, UsersTyped, End, Go, PC, Job, User, NoUser

LEMMA RaiseType ==
  ASSUME GatewayTypeOK, NEW t \in Threads, Raise(t)
  PROVE  /\ pc' \in [Threads -> PC] /\ job' \in [Threads -> Job]
         /\ user' \in [Threads -> User] /\ keys' \in [Threads -> Identities \cup {Nobody}]
         /\ UsersTyped
  <1>1. CASE job[t] = "setup"
    BY <1>1 DEF GatewayTypeOK, UsersTyped, Raise, GoWithoutKeys, Go, PC
  <1>2. CASE job[t] # "setup"
    BY <1>2, EndType DEF Raise
  <1> QED BY <1>1, <1>2

\* The actions of one thread.
LEMMA RegistryStepType ==
  ASSUME GatewayTypeOK, NEW t \in Threads, RegistryStep(t)
  PROVE  GatewayTypeOK'
<1> USE DEF GatewayTypeOK, UsersTyped, ProcessOf, Process, Loaded, Unlock, SaveIfThere
<1>1. CASE Load(t)
  BY <1>1 DEF Load, threads, world
<1>2. EmptyRegistry \in Registry
  BY DEF EmptyRegistry, Registry, Entry, NoEntry, FirstPort
<1>3. CASE RecordUserClientIp(t)
  <2>1. CASE End(t)
    BY <1>2, <1>3, <2>1, EndType DEF RecordUserClientIp, world
  <2>2. CASE Go(t, "ensuring") /\ UNCHANGED <<job, user, keys>>
    BY <1>2, <1>3, <2>2 DEF RecordUserClientIp, world, Go, PC
  <2> QED BY <1>3, <2>1, <2>2 DEF RecordUserClientIp
<1>4. CASE UpdateUserStatus(t)
  BY <1>2, <1>4, EndType DEF UpdateUserStatus, world
<1>5. CASE Register(t)
  <2> DEFINE r == Loaded(t)  i == user[t].identity
  <2>1. CASE SlugFor(r, i) # NoSlug /\ End(t) /\ UNCHANGED registry
    BY <1>2, <1>5, <2>1, EndType DEF Register, world
  <2>2. CASE ~(SlugFor(r, i) # NoSlug /\ End(t) /\ UNCHANGED registry)
    <3>1. PICK s \in FreeSlugs(r), p \in FirstPort..MaxPort :
            /\ registry' = [users |-> [r.users EXCEPT ![s] = [identity |-> i, port |-> p]],
                            login |-> [r.login EXCEPT ![i] = s], next |-> p + 1]
            /\ user' = [user EXCEPT ![t] = [slug |-> s, identity |-> i, port |-> p]]
      BY <1>5, <2>2 DEF Register
    <3>2. s \in Slugs /\ p \in Nat
      BY DEF FreeSlugs, FirstPort
    <3>3. i \in Identities /\ pc' = [pc EXCEPT ![t] = "storing"] /\ UNCHANGED <<job, keys>>
      BY <1>5, <2>2 DEF Register, Go
    <3>4. registry' \in Registry
      BY <3>1, <3>2, <3>3 DEF Registry, Entry
    <3>5. /\ user' \in [Threads -> User] /\ user'[t].slug \in Slugs
          /\ \A v \in Threads : v # t => user'[v] = user[v]
      BY <3>1, <3>2, <3>3 DEF User
    <3> QED BY <1>2, <1>5, <3>3, <3>4, <3>5 DEF Register, world, PC
  <2> QED BY <1>5, <2>1, <2>2 DEF Register
<1>6. CASE Unregister(t)
  <2>1. registry' \in Registry
    BY <1>6, WithoutUserType, WithoutFailedType DEF Unregister, User
  <2> QED BY <1>2, <1>6, <2>1, EndType DEF Unregister, world
<1> QED BY <1>1, <1>3, <1>4, <1>5, <1>6 DEF RegistryStep

LEMMA ContainerStepType ==
  ASSUME GatewayTypeOK, NEW t \in Threads, ContainerStep(t)
  PROVE  GatewayTypeOK'
<1> USE DEF GatewayTypeOK, UsersTyped
<1>1. CASE StoreCredentials(t)
  <2>1. user[t].slug \in Slugs /\ user[t].identity \in Identities \cup {Nobody}
    BY <1>1 DEF StoreCredentials, User
  <2>2. secrets' \in [Slugs -> Identities \cup {Nobody}] /\ dirs' \in SUBSET Slugs
    <3>1. CASE UNCHANGED secrets
      BY <1>1, <2>1, <3>1 DEF StoreCredentials
    <3>2. CASE secrets' = [secrets EXCEPT ![user[t].slug] = user[t].identity]
      BY <1>1, <2>1, <3>2 DEF StoreCredentials
    <3> QED BY <1>1, <3>1, <3>2 DEF StoreCredentials
  <2>3. CASE Raise(t)
    BY <1>1, <2>2, <2>3, RaiseType DEF StoreCredentials
  <2>4. CASE ~Raise(t)
    BY <1>1, <2>1, <2>2, <2>4 DEF StoreCredentials, Go, PC
  <2> QED BY <2>3, <2>4
<1>2. CASE GetUserCredentials(t)
  <2>1. CASE Raise(t)
    BY <1>2, <2>1, RaiseType DEF GetUserCredentials, world
  <2>2. CASE ~Raise(t)
    <3>1. secrets[user[t].slug] \in Identities \cup {Nobody}
      BY <1>2 DEF GetUserCredentials
    <3> QED BY <1>2, <2>2, <3>1 DEF GetUserCredentials, world, Go, PC
  <2> QED BY <2>1, <2>2
<1> DEFINE Same == UNCHANGED <<job, user, keys>>
<1>3. ASSUME NEW next \in PC \ {"creating", "recording", "storing", "ensuring"}, Go(t, next) /\ Same
      PROVE  /\ pc' \in [Threads -> PC] /\ job' \in [Threads -> Job]
             /\ user' \in [Threads -> User] /\ keys' \in [Threads -> Identities \cup {Nobody}]
             /\ UsersTyped
  BY <1>3 DEF Go
<1>11. ASSUME NEW next \in PC \ {"creating", "recording", "storing", "ensuring"}, GoWithoutKeys(t, next)
       PROVE  /\ pc' \in [Threads -> PC] /\ job' \in [Threads -> Job]
              /\ user' \in [Threads -> User] /\ keys' \in [Threads -> Identities \cup {Nobody}]
              /\ UsersTyped
  BY <1>11 DEF GoWithoutKeys, Go
<1>4. ASSUME Ensured(t)
      PROVE  /\ pc' \in [Threads -> PC] /\ job' \in [Threads -> Job]
             /\ user' \in [Threads -> User] /\ keys' \in [Threads -> Identities \cup {Nobody}]
             /\ UsersTyped
  BY <1>4, <1>11, EndType DEF Ensured, PC
<1>5. CASE FindContainer(t)
  BY <1>3, <1>4, <1>5, <1>11 DEF FindContainer, world, PC
<1>6. CASE StartContainer(t)
  <2>1. containers' \in [Slugs -> Container]
    BY <1>6 DEF StartContainer, Container
  <2> QED BY <1>11, <1>6, <2>1, RaiseType DEF StartContainer, PC
<1>7. CASE RunContainer(t)
  <2>1. containers' \in [Slugs -> Container]
    BY <1>7 DEF RunContainer, Container, User
  <2> QED BY <1>11, <1>7, <2>1, RaiseType DEF RunContainer, PC
<1>8. CASE WaitForUserHttp(t)
  BY <1>4, <1>8, RaiseType DEF WaitForUserHttp, world
<1>9. CASE RemoveContainer(t)
  <2>1. containers' \in [Slugs -> Container]
    BY <1>9 DEF RemoveContainer, Removes, Container, NoContainer
  <2> QED BY <1>3, <1>9, <2>1 DEF RemoveContainer, PC
<1>10. CASE DeleteUserCredentials(t)
  <2>1. secrets' \in [Slugs -> Identities \cup {Nobody}] /\ leaked' \in SUBSET Slugs
    BY <1>10 DEF DeleteUserCredentials, KeptIn
  <2> QED BY <1>3, <1>10, <2>1, EndType DEF DeleteUserCredentials, PC
<1> QED BY <1>1, <1>2, <1>5, <1>6, <1>7, <1>8, <1>9, <1>10 DEF ContainerStep

LEMMA CommandStepType ==
  ASSUME GatewayTypeOK, CommandStep
  PROVE  GatewayTypeOK'
<1> USE DEF GatewayTypeOK, UsersTyped
<1>0. Admin \in Threads
  BY DEF Threads
<1>1. ASSUME NEW s \in Slugs, NEW c \in {"stop", "start", "restart", "remove", "offboard"},
             Command(c, s)
      PROVE  GatewayTypeOK'
  <2>1. /\ UserOf(registry, s) \in User /\ UserOf(registry, s).slug = s
        /\ FirstStep(c) \in PC \ {"creating"} /\ c \in Job
    BY <1>1, UserOfType DEF Command, FirstStep, PC, Job
  <2>2. commands' \in 0..MaxCommands
    BY <1>1 DEF Command, NewCommand
  <2> QED BY <1>0, <1>1, <2>1, <2>2 DEF Command, NewCommand, Go
<1>2. ASSUME NEW s \in Slugs,
             \/ SlugCommand("delete_user", "unregistering", s)
             \/ SlugCommand("delete_secrets", "deleting", s)
      PROVE  GatewayTypeOK'
  <2>1. [NoUser EXCEPT !.slug = s] \in User
    BY DEF NoUser, User
  <2>2. commands' \in 0..MaxCommands
    BY <1>2 DEF SlugCommand, NewCommand
  <2> QED BY <1>0, <1>2, <2>1, <2>2 DEF SlugCommand, NewCommand, Go, PC, Job
<1>3. CASE StopContainer(Admin)
  <2>1. containers' \in [Slugs -> Container]
    <3>1. CASE UNCHANGED containers
      BY <3>1
    <3>2. CASE containers' = [containers EXCEPT ![user[Admin].slug].state = "stopped"]
      <4>1. \A c \in Container : [c EXCEPT !.state = "stopped"] \in Container
        BY DEF Container
      <4> QED BY <3>2, <4>1
    <3> QED BY <1>3, <3>1, <3>2 DEF StopContainer
  <2>2. CASE Raise(Admin)
    BY <1>0, <1>3, <2>1, <2>2, RaiseType DEF StopContainer
  <2>3. CASE ~Raise(Admin)
    BY <1>0, <1>3, <2>1, <2>3 DEF StopContainer, Go, PC
  <2> QED BY <2>2, <2>3
<1>4. CASE TrashUserDir(Admin)
  <2>1. CASE End(Admin)
    BY <1>0, <1>4, <2>1, EndType DEF TrashUserDir
  <2>2. CASE ~End(Admin)
    BY <1>0, <1>4, <2>2 DEF TrashUserDir, Go, PC
  <2> QED BY <2>1, <2>2
<1>5. CASE ListOrphans
  <2>1. commands' \in 0..MaxCommands
    BY <1>5 DEF ListOrphans, NewCommand
  <2> QED BY <1>0, <1>5, <2>1 DEF ListOrphans, NewCommand, Go, PC, Job, Process
<1>6. CASE FindOrphanContainers
  BY <1>0, <1>6 DEF FindOrphanContainers, world, Go, PC
<1>7. CASE FindStaleDirs
  <2>1. EmptyRegistry \in Registry
    BY DEF EmptyRegistry, Registry, Entry, NoEntry, FirstPort
  <2> QED BY <1>0, <1>7, <2>1 DEF FindStaleDirs, world, Go, PC, Process
<1>8. CASE CleanUpContainer
  <2>1. containers' \in [Slugs -> Container]
    BY <1>8 DEF CleanUpContainer, Removes, Container, NoContainer
  <2>2. found' \in [containers: SUBSET Slugs, dirs: SUBSET Slugs]
    BY <1>8 DEF CleanUpContainer
  <2> QED BY <1>8, <2>1, <2>2 DEF CleanUpContainer, threads
<1>9. CASE CleanUpDir
  BY <1>9 DEF CleanUpDir, threads
<1>10. CASE CleanedUp
  BY <1>0, <1>10, EndType DEF CleanedUp, world
<1> QED BY <1>1, <1>2, <1>3, <1>4, <1>5, <1>6, <1>7, <1>8, <1>9, <1>10 DEF CommandStep

LEMMA NextType ==
  ASSUME GatewayTypeOK, [GatewayNext]_gatewayVars
  PROVE  GatewayTypeOK'
<1>1. ASSUME NEW t \in Threads, Route(t)
      PROVE  GatewayTypeOK'
  <2>1. PICK i \in Identities :
          /\ SlugFor(registry, i) # NoSlug
          /\ user' = [user EXCEPT ![t] = UserOf(registry, SlugFor(registry, i))]
    BY <1>1 DEF Route
  <2>2. /\ UserOf(registry, SlugFor(registry, i)) \in User
        /\ UserOf(registry, SlugFor(registry, i)).slug \in Slugs
    BY <2>1, UserOfType DEF GatewayTypeOK, SlugFor, Registry
  <2> QED BY <1>1, <2>1, <2>2 DEF Route, GatewayTypeOK, world, Go, PC, Job
<1>2. ASSUME NEW t \in Threads, Setup(t)
      PROVE  GatewayTypeOK'
  BY <1>2 DEF Setup, GatewayTypeOK, world, Go, PC, Job, User, NoUser
<1>3. ASSUME NEW p \in Process, GatewayCrash(p)
      PROVE  GatewayTypeOK'
  BY <1>3 DEF GatewayCrash, GatewayTypeOK, world, PC, Job, User, NoUser, Process, Nothing,
              EmptyRegistry, Registry, Entry, NoEntry, FirstPort
<1>4. CASE UNCHANGED gatewayVars
  BY <1>4 DEF gatewayVars, GatewayTypeOK
<1> QED
  BY <1>1, <1>2, <1>3, <1>4, RegistryStepType, ContainerStepType, CommandStepType
  DEF GatewayNext

-----------------------------------------------------------------------------
(* Ports *)

LEMMA EmptyPorts == PortsOK(EmptyRegistry)
  BY DEF PortsOK, EmptyRegistry, Registered, FirstPort

\* A registered port is below next_port, so the next one is new.
LEMMA RegisterPorts ==
  ASSUME NEW r \in Registry, PortsOK(r), NEW s \in Slugs, NEW i \in Identities,
         NEW p \in Nat, NextAvailablePort(r, p), NEW q,
         q = [users |-> [r.users EXCEPT ![s] = [identity |-> i, port |-> p]],
              login |-> [r.login EXCEPT ![i] = s], next |-> p + 1]
  PROVE  PortsOK(q)
  <1>1. r.users \in [Slugs -> Entry \cup {NoEntry}] /\ r.next \in Nat
    BY DEF Registry
  <1>2. /\ q.users[s].port = p /\ q.next = p + 1
        /\ \A v \in Slugs \ {s} : q.users[v] = r.users[v]
    BY <1>1
  <1>3. p >= r.next
    BY DEF NextAvailablePort
  <1>4. \A v \in Slugs : r.users[v].port \in Nat
    BY <1>1 DEF Entry, NoEntry
  <1> QED BY <1>1, <1>2, <1>3, <1>4 DEF PortsOK, Registered, FirstPort

LEMMA RemovePorts ==
  ASSUME NEW r \in Registry, PortsOK(r), NEW s, NEW q \in Registry,
         q.next = r.next, q.users = [r.users EXCEPT ![s] = NoEntry]
  PROVE  PortsOK(q)
  BY DEF PortsOK, Registered, Registry

AllPortsOK == PortsOK(registry) /\ \A p \in Process : PortsOK(copy[p])

LEMMA NextPorts ==
  ASSUME GatewayTypeOK, AllPortsOK, [GatewayNext]_gatewayVars
  PROVE  AllPortsOK'
<1> DEFINE Same == UNCHANGED <<registry, copy>>
<1>1. ASSUME Same PROVE AllPortsOK'
  BY <1>1 DEF AllPortsOK, PortsOK, Registered
<1>2. ASSUME NEW t \in Threads, RegistryStep(t) PROVE AllPortsOK'
  <2> DEFINE r == Loaded(t)
  <2>1. ProcessOf(t) \in Process /\ r \in Registry /\ PortsOK(r)
    BY DEF ProcessOf, Process, Loaded, AllPortsOK, GatewayTypeOK
  <2>2. CASE Load(t)
    BY <1>2, <2>1, <2>2 DEF Load, AllPortsOK, GatewayTypeOK
  <2>3. SUFFICES ASSUME ~Load(t), PortsOK(registry)' PROVE AllPortsOK'
    <3>1. CASE RecordUserClientIp(t) \/ UpdateUserStatus(t)
      <4>1. registry' = registry \/ registry' = r
        BY <3>1 DEF RecordUserClientIp, UpdateUserStatus, SaveIfThere
      <4> QED BY <4>1, <2>1, <2>2, <2>3 DEF AllPortsOK, PortsOK, Registered
    <3>2. CASE Register(t)
      <4> DEFINE i == user[t].identity
      <4>1. CASE UNCHANGED registry
        BY <4>1, <2>2, <2>3 DEF AllPortsOK, PortsOK, Registered
      <4>2. CASE ~UNCHANGED registry
        <5>1. PICK s \in FreeSlugs(r), p \in FirstPort..MaxPort :
                /\ NextAvailablePort(r, p)
                /\ registry' =
                     [users |-> [r.users EXCEPT ![s] = [identity |-> i, port |-> p]],
                      login |-> [r.login EXCEPT ![i] = s], next |-> p + 1]
          BY <3>2, <4>2 DEF Register
        <5>2. s \in Slugs /\ p \in Nat /\ i \in Identities
          BY <3>2 DEF FreeSlugs, FirstPort, Register, GatewayTypeOK
        <5>3. PortsOK(registry')
          BY <2>1, <5>1, <5>2, RegisterPorts
        <5> QED BY <5>3, <2>2, <2>3 DEF PortsOK, Registered
      <4> QED BY <4>1, <4>2
    <3>3. CASE Unregister(t)
      <4>1. /\ registry' \in Registry /\ registry'.next = r.next
            /\ registry'.users = [r.users EXCEPT ![user[t].slug] = NoEntry]
        <5>1. user[t] \in User
          BY DEF GatewayTypeOK
        <5> QED BY <3>3, <5>1, <2>1, WithoutUserType, WithoutFailedType
                DEF Unregister, WithoutUser, WithoutFailed, User, Registry
      <4>2. PortsOK(registry')
        BY <4>1, <2>1, RemovePorts
      <4> QED BY <4>2, <2>2, <2>3 DEF PortsOK, Registered
    <3> QED BY <1>2, <2>2, <2>3, <3>1, <3>2, <3>3 DEF RegistryStep
  <2>4. copy' = [copy EXCEPT ![ProcessOf(t)] = EmptyRegistry]
    BY <1>2, <2>3 DEF RegistryStep, RecordUserClientIp, UpdateUserStatus, Register,
                      Unregister, Unlock
  <2> QED BY <2>1, <2>3, <2>4, EmptyPorts DEF AllPortsOK, GatewayTypeOK
<1>3. CASE ListOrphans
  BY <1>3 DEF ListOrphans, AllPortsOK, GatewayTypeOK, Process
<1>4. CASE FindStaleDirs
  BY <1>4, EmptyPorts DEF FindStaleDirs, AllPortsOK, GatewayTypeOK, Process
<1>5. ASSUME NEW p \in Process, GatewayCrash(p) PROVE AllPortsOK'
  BY <1>5, EmptyPorts DEF GatewayCrash, AllPortsOK, GatewayTypeOK, Process
<1>6. ASSUME NEW t \in Threads, Route(t) \/ Setup(t) \/ ContainerStep(t) PROVE Same
  BY <1>6 DEF Route, Setup, ContainerStep, StoreCredentials, GetUserCredentials,
    FindContainer, StartContainer, RunContainer, WaitForUserHttp, RemoveContainer,
    DeleteUserCredentials
<1>7. ASSUME CommandStep, ~ListOrphans, ~FindStaleDirs PROVE Same
  BY <1>7 DEF CommandStep, Command, SlugCommand, StopContainer, TrashUserDir,
    FindOrphanContainers, CleanUpContainer, CleanUpDir, CleanedUp
<1>8. CASE UNCHANGED gatewayVars
  BY <1>1, <1>8 DEF gatewayVars
<1> QED BY <1>1, <1>2, <1>3, <1>4, <1>5, <1>6, <1>7, <1>8 DEF GatewayNext

-----------------------------------------------------------------------------
(* While no command has run, users are kept apart *)

Others(t) ==
  \A v \in Servers \ {t} :
    pc'[v] = pc[v] /\ job'[v] = job[v] /\ user'[v] = user[v] /\ keys'[v] = keys[v]

\* t takes credentials away, or stores those of the user it is setting up, and
\* what the store has kept once stays noted.
OnlyOwnSecrets(t) ==
  /\ leaked \subseteq leaked'
  /\ \A s \in Slugs :
       \/ secrets'[s] = secrets[s]
       \/ secrets'[s] = Nobody
       \/ InSetup(t) /\ s = user[t].slug

\* A step of t that leaves the registry alone is no concern of other requests.
LEMMA KeepRequests ==
  ASSUME GatewayTypeOK, RequestsOK, NEW t \in Servers, Others(t), UNCHANGED registry,
         RequestOK(t)', InSetup(t)' => InSetup(t) /\ user'[t] = user[t],
         OnlyOwnSecrets(t)
  PROVE  RequestsOK'
<1>1. \A v \in Servers \ {t} : InSetup(v)' <=> InSetup(v)
  BY DEF Others, InSetup
<1>2. ASSUME NEW v \in Servers \ {t} PROVE RequestOK(v)'
  <2>1. RequestOK(v)
    BY DEF RequestsOK
  <2>2. pc[v] = "unregistering" => InSetup(v) /\ user[v].slug \in Slugs
    BY <2>1 DEF RequestOK, InSetup, Creating
  <2>3. pc[v] = "unregistering" =>
          secrets'[user[v].slug] = Nobody \/ user[v].slug \in leaked'
    BY <2>1, <2>2 DEF RequestOK, RequestsOK, OnlyOwnSecrets
  <2>4. pc'[v] = pc[v] /\ job'[v] = job[v] /\ user'[v] = user[v] /\ keys'[v] = keys[v]
    BY DEF Others
  <2>5. \A p, q, i : (Whose(p, q, i) => Whose(p, q, i)') /\ (Holds(p, q, i) => Holds(p, q, i)')
    BY DEF Holds, Whose, Registered, OnlyOwnSecrets
  <2> QED BY <1>1, <2>1, <2>3, <2>4, <2>5 DEF RequestOK, Registered
<1>3. \A v, w \in Servers : InSetup(v)' /\ InSetup(w)' /\ user'[v].slug = user'[w].slug => v = w
  BY <1>1 DEF RequestsOK, Others
<1> QED BY <1>2, <1>3 DEF RequestsOK

\* The three ways a request goes on.
LEMMA EndOK ==
  ASSUME GatewayTypeOK, NEW t \in Servers, End(t)
  PROVE  Others(t) /\ RequestOK(t)' /\ ~InSetup(t)' /\ pc'[Admin] = pc[Admin]
  BY DEF GatewayTypeOK, Threads, End, Go, Others, RequestOK, InSetup, Creating

LEMMA GoOK ==
  ASSUME GatewayTypeOK, NEW t \in Servers, RequestOK(t), UNCHANGED registry,
         leaked \subseteq leaked', NEW next \in Creating,
         \/ Go(t, next) /\ UNCHANGED <<job, user, keys>>
         \/ GoWithoutKeys(t, next) /\ next \notin {"finding", "launching"},
         pc[t] \in {"recording"} \cup Creating,
         pc[t] = "recording" => next \notin {"storing", "saving", "removing"},
         next \in {"storing", "saving", "removing", "deleting", "unregistering"} => job[t] = "setup",
         next = "unregistering" =>
           secrets'[user[t].slug] = Nobody \/ user[t].slug \in leaked',
         next \in {"finding", "launching"} => pc[t] \in {"finding", "launching"}
  PROVE  /\ Others(t) /\ RequestOK(t)' /\ pc'[Admin] = pc[Admin]
         /\ InSetup(t)' => InSetup(t) /\ user'[t] = user[t]
<1>1. /\ pc'[t] = next /\ Others(t) /\ pc'[Admin] = pc[Admin]
      /\ job'[t] = job[t] /\ user'[t] = user[t]
      /\ next \in {"finding", "launching"} => keys'[t] = keys[t]
  BY DEF GatewayTypeOK, Threads, Go, GoWithoutKeys, Others
<1>2. InSetup(t)' => InSetup(t)
  BY <1>1 DEF InSetup, RequestOK, Creating
<1>3. RequestOK(t)'
  BY <1>1, <1>2 DEF RequestOK, Holds, Whose, Registered, Creating
<1> QED BY <1>1, <1>2, <1>3

LEMMA RaiseOK ==
  ASSUME GatewayTypeOK, NEW t \in Servers, RequestOK(t), UNCHANGED registry, Raise(t),
         leaked \subseteq leaked',
         pc[t] \in Creating
  PROVE  /\ Others(t) /\ RequestOK(t)' /\ pc'[Admin] = pc[Admin]
         /\ InSetup(t)' => InSetup(t) /\ user'[t] = user[t]
<1>1. CASE job[t] = "setup"
  BY <1>1, GoOK DEF Raise, Creating
<1>2. CASE job[t] # "setup"
  BY <1>2, EndOK DEF Raise
<1> QED BY <1>1, <1>2

LEMMA EnsuredOK ==
  ASSUME GatewayTypeOK, NEW t \in Servers, RequestOK(t), UNCHANGED registry, Ensured(t),
         leaked \subseteq leaked',
         pc[t] \in Creating
  PROVE  /\ Others(t) /\ RequestOK(t)' /\ pc'[Admin] = pc[Admin]
         /\ InSetup(t)' => InSetup(t) /\ user'[t] = user[t]
<1>1. CASE job[t] = "route"
  BY <1>1, EndOK DEF Ensured
<1>2. CASE job[t] # "route"
  BY <1>2, GoOK DEF Ensured, Creating, RequestOK
<1> QED BY <1>1, <1>2

Moved(t) ==
  /\ Others(t) /\ RequestOK(t)' /\ pc'[Admin] = pc[Admin]
  /\ InSetup(t)' => InSetup(t) /\ user'[t] = user[t]

\* create_user and ensure_container, step by step.
LEMMA ContainerStepOK ==
  ASSUME GatewayTypeOK, Undisturbed, NEW t \in Servers, ContainerStep(t), commands = 0
  PROVE  Undisturbed'
<1>1. RequestOK(t)
  BY DEF Undisturbed, RequestsOK
<1>2. UNCHANGED <<registry, copy, lock>>
  BY DEF ContainerStep, StoreCredentials, GetUserCredentials, FindContainer, StartContainer,
    RunContainer, WaitForUserHttp, RemoveContainer, DeleteUserCredentials
<1>l. leaked \subseteq leaked'
  BY DEF ContainerStep, StoreCredentials, GetUserCredentials, FindContainer, StartContainer,
    RunContainer, WaitForUserHttp, RemoveContainer, DeleteUserCredentials, world
<1> USE <1>l
<1>3. LoginOK' /\ (pc[t] \notin Updates /\ Others(t) => LockOK')
  BY <1>2 DEF Undisturbed, LoginOK, LockOK, Registered, Others
<1> USE DEF Moved, OnlyOwnSecrets
<1>4. SUFFICES /\ Moved(t) /\ pc[t] \notin Updates
               /\ OnlyOwnSecrets(t)
               /\ SecretsOK' /\ ContainersOK'
  BY <1>2, <1>3, KeepRequests DEF Undisturbed
<1>5. UNCHANGED secrets => SecretsOK'
  BY <1>2 DEF Undisturbed, SecretsOK, Registered
<1>w. ASSUME NEW p, NEW s, NEW i, Holds(p, s, i) PROVE Holds(p, s, i)'
  BY <1>2, <1>w DEF Holds, Whose, Registered
<1>6. UNCHANGED containers => ContainersOK'
  BY <1>w DEF Undisturbed, ContainersOK
<1>7. CASE StoreCredentials(t)
  <2>1. InSetup(t) /\ pc[t] = "storing" /\ user[t].slug \in Slugs
    BY <1>1, <1>7 DEF StoreCredentials, InSetup, RequestOK, Creating
  <2>2. Moved(t)
    <3>1. CASE Raise(t)
      BY <3>1, <1>1, <1>2, <2>1, RaiseOK DEF Creating
    <3>2. CASE ~Raise(t)
      BY <3>2, <1>1, <1>2, <1>7, <2>1, GoOK DEF StoreCredentials, Creating
    <3> QED BY <3>1, <3>2
  <2>3. CASE UNCHANGED secrets
    BY <2>1, <2>2, <2>3, <1>5, <1>6, <1>7 DEF StoreCredentials, Updates
  <2>4. CASE secrets' = [secrets EXCEPT ![user[t].slug] = user[t].identity]
    <3>1. Registered(registry, user[t].slug)
          /\ registry.users[user[t].slug].identity = user[t].identity
      BY <1>1, <2>1 DEF RequestOK, Whose, Creating
    <3>2. SecretsOK'
      BY <3>1, <2>1, <2>4, <1>2 DEF Undisturbed, SecretsOK, GatewayTypeOK, Registered
    <3> QED BY <3>2, <2>1, <2>2, <2>4, <1>6, <1>7 DEF StoreCredentials, Updates, GatewayTypeOK
  <2> QED BY <2>3, <2>4, <1>7 DEF StoreCredentials
<1>8. CASE GetUserCredentials(t)
  <2>1. pc[t] = "ensuring" /\ user[t].slug \in Slugs
    BY <1>1, <1>8 DEF GetUserCredentials, RequestOK, Creating
  <2>2. Moved(t)
    <3>1. CASE Raise(t)
      BY <3>1, <1>1, <1>2, <2>1, RaiseOK DEF Creating
    <3>2. CASE ~Raise(t)
      <4>1. /\ keys' = [keys EXCEPT ![t] = secrets[user[t].slug]]
            /\ secrets[user[t].slug] # Nobody
            /\ Go(t, "finding") /\ UNCHANGED <<job, user>>
        BY <3>2, <1>8 DEF GetUserCredentials
      <4>2. \/ user[t].slug \in leaked
            \/ /\ Registered(registry, user[t].slug)
               /\ registry.users[user[t].slug].identity = secrets[user[t].slug]
        BY <2>1, <4>1 DEF Undisturbed, SecretsOK
      <4>3. Holds(user[t].port, user[t].slug, secrets[user[t].slug])
        BY <1>1, <2>1, <4>2 DEF RequestOK, Holds, Whose, Creating
      <4>4. /\ Others(t) /\ pc'[Admin] = pc[Admin] /\ pc'[t] = "finding"
            /\ job'[t] = job[t] /\ user'[t] = user[t] /\ keys'[t] = secrets[user[t].slug]
        BY <4>1 DEF GatewayTypeOK, Threads, Go, Others
      <4>5. InSetup(t)' => InSetup(t)
        BY <2>1, <4>4 DEF InSetup, Creating
      <4>6. RequestOK(t)'
        BY <1>1, <1>2, <1>w, <2>1, <4>3, <4>4, <4>5 DEF RequestOK, Whose, Registered, Creating
      <4> QED BY <4>4, <4>5, <4>6
    <3> QED BY <3>1, <3>2
  <2> QED BY <2>1, <2>2, <1>5, <1>6, <1>8 DEF GetUserCredentials, world, Updates
<1>9. CASE FindContainer(t)
  <2>1. Moved(t)
    BY <1>1, <1>2, <1>9, EnsuredOK, GoOK DEF FindContainer, Creating
  <2> QED BY <2>1, <1>5, <1>6, <1>9 DEF FindContainer, world, Updates
<1>10. CASE StartContainer(t)
  <2>1. pc[t] = "starting" /\ user[t].slug \in Slugs
    BY <1>1, <1>10 DEF StartContainer, RequestOK, Creating
  <2>2. Moved(t)
    BY <1>1, <1>2, <1>10, <2>1, RaiseOK, GoOK DEF StartContainer, Creating
  <2>3. ContainersOK'
    <3>1. CASE UNCHANGED containers
      BY <3>1, <1>6
    <3>2. CASE /\ MayRun(user[t].slug)
               /\ containers' = [containers EXCEPT ![user[t].slug].state = "running"]
      <4>1. \A s \in Slugs : /\ containers'[s].port = containers[s].port
                             /\ containers'[s].owner = containers[s].owner
                             /\ containers'[s].state # "absent" => containers[s].state # "absent"
        BY <3>2, <2>1 DEF MayRun, GatewayTypeOK, Container
      <4> QED BY <4>1, <1>w DEF Undisturbed, ContainersOK
    <3> QED BY <3>1, <3>2, <1>10 DEF StartContainer
  <2> QED BY <2>1, <2>2, <2>3, <1>5, <1>10 DEF StartContainer, Updates
<1>11. CASE RunContainer(t)
  <2>1. pc[t] = "launching" /\ user[t].slug \in Slugs
    BY <1>1, <1>11 DEF RunContainer, RequestOK, Creating
  <2>2. Moved(t)
    BY <1>1, <1>2, <1>11, <2>1, RaiseOK, GoOK DEF RunContainer, Creating
  <2>3. ContainersOK'
    <3>1. CASE UNCHANGED containers
      BY <3>1, <1>6
    <3>2. CASE ~UNCHANGED containers
      <4>1. PICK c : /\ containers' = [containers EXCEPT ![user[t].slug] = c]
                     /\ c.port = user[t].port /\ c.owner = keys[t]
        BY <3>2, <1>11 DEF RunContainer
      <4>2. Holds(user[t].port, user[t].slug, keys[t])
        BY <1>1, <2>1 DEF RequestOK
      <4> QED BY <4>1, <4>2, <2>1, <1>w DEF Undisturbed, ContainersOK, GatewayTypeOK
    <3> QED BY <3>1, <3>2
  <2> QED BY <2>1, <2>2, <2>3, <1>5, <1>11 DEF RunContainer, Updates
<1>12. CASE WaitForUserHttp(t)
  <2>1. Moved(t)
    BY <1>1, <1>2, <1>12, EnsuredOK, RaiseOK DEF WaitForUserHttp, Creating
  <2> QED BY <2>1, <1>5, <1>6, <1>12 DEF WaitForUserHttp, world, Updates
<1>13. CASE RemoveContainer(t)
  <2>1. pc[t] = "removing" /\ job[t] = "setup" /\ user[t].slug \in Slugs
    BY <1>1, <1>13 DEF RemoveContainer, RequestOK, Creating
  <2>2. Moved(t)
    BY <1>1, <1>2, <1>13, <2>1, GoOK DEF RemoveContainer, Creating
  <2>3. ContainersOK'
    BY <1>w, <1>13, <2>1 DEF RemoveContainer, Removes, Undisturbed, ContainersOK,
                             GatewayTypeOK, NoContainer
  <2> QED BY <2>1, <2>2, <2>3, <1>5, <1>13 DEF RemoveContainer, Updates
<1>14. CASE DeleteUserCredentials(t)
  <2>1. pc[t] = "deleting" /\ job[t] = "setup" /\ user[t].slug \in Slugs
    BY <1>1, <1>14 DEF DeleteUserCredentials, RequestOK, Creating
  <2>2. Go(t, "unregistering") /\ UNCHANGED <<job, user, keys>>
    BY <1>14, <2>1 DEF DeleteUserCredentials
  <2>3. /\ secrets'[user[t].slug] = Nobody \/ user[t].slug \in leaked'
        /\ \A s \in Slugs : secrets'[s] = secrets[s] \/ secrets'[s] = Nobody
    <3>1. CASE secrets' = [secrets EXCEPT ![user[t].slug] = Nobody]
      BY <2>1, <3>1 DEF GatewayTypeOK
    <3>2. CASE leaked' = leaked \cup KeptIn(user[t].slug) /\ UNCHANGED secrets
      BY <2>1, <3>2 DEF GatewayTypeOK, KeptIn
    <3> QED BY <1>14, <3>1, <3>2 DEF DeleteUserCredentials
  <2>4. Moved(t)
    BY <1>1, <1>2, <2>1, <2>2, <2>3, GoOK DEF Creating
  <2>5. SecretsOK'
    BY <1>2, <2>3 DEF Undisturbed, SecretsOK, Registered
  <2> QED BY <2>1, <2>3, <2>4, <2>5, <1>6, <1>14 DEF DeleteUserCredentials, Updates
<1> QED BY <1>7, <1>8, <1>9, <1>10, <1>11, <1>12, <1>13, <1>14 DEF ContainerStep

\* A request arrives.
LEMMA ArrivalOK ==
  ASSUME GatewayTypeOK, PortsOK(registry), Undisturbed, NEW t \in Servers, Route(t) \/ Setup(t)
  PROVE  Undisturbed'
<1>1. /\ UNCHANGED <<registry, copy, lock, world>> /\ pc[t] = "idle"
      /\ Others(t) /\ pc'[Admin] = pc[Admin]
  BY DEF Route, Setup, GatewayTypeOK, Threads, Go, Others
<1>2. LoginOK' /\ SecretsOK' /\ ContainersOK' /\ LockOK'
  BY <1>1 DEF Undisturbed, LoginOK, SecretsOK, ContainersOK, LockOK, Holds, Whose, Registered,
              Others, world, Updates
<1>3. RequestOK(t)' /\ ~InSetup(t)'
  <2>1. CASE Route(t)
    <3>1. PICK i \in Identities :
            /\ SlugFor(registry, i) # NoSlug
            /\ user' = [user EXCEPT ![t] = UserOf(registry, SlugFor(registry, i))]
      BY <2>1 DEF Route
    <3> DEFINE s == SlugFor(registry, i)
    <3>2. s \in Slugs /\ Registered(registry, s)
      BY <3>1 DEF SlugFor, GatewayTypeOK, Registry
    <3>3. /\ user'[t] = UserOf(registry, s) /\ pc'[t] = "recording" /\ job'[t] = "route"
      BY <2>1, <3>1 DEF Route, Go, GatewayTypeOK, Threads
    <3>4. Whose(user'[t].port, s, user'[t].identity)
      BY <3>2, <3>3 DEF Whose, PortsOK, UserOf
    <3>5. user'[t].slug = s /\ user'[t].identity \in Identities
      BY <3>2, <3>3, UserOfType DEF GatewayTypeOK
    <3> QED BY <1>1, <3>2, <3>3, <3>4, <3>5 DEF RequestOK, InSetup, Creating, Whose, Registered
  <2>2. CASE Setup(t)
    <3>1. /\ user'[t].identity \in Identities /\ pc'[t] = "creating" /\ job'[t] = "setup"
      BY <2>2 DEF Setup, Go, GatewayTypeOK, Threads, NoUser
    <3> QED BY <3>1 DEF RequestOK, InSetup, Creating
  <2> QED BY <2>1, <2>2
<1>4. RequestsOK'
  BY <1>1, <1>3, KeepRequests DEF Undisturbed, OnlyOwnSecrets, world
<1> QED BY <1>1, <1>2, <1>4 DEF Undisturbed

\* What a save or the loading of the registry does when nobody else writes.
LEMMA SavedOK ==
  ASSUME GatewayTypeOK, Undisturbed, NEW t \in Servers,
         Load(t) \/ RecordUserClientIp(t) \/ UpdateUserStatus(t)
  PROVE  Undisturbed' /\ UNCHANGED registry
<1>1. ProcessOf(t) = "server" /\ t # Admin /\ "server" \in Process /\ "command" \in Process
      /\ "server" # "command"
  BY DEF ProcessOf, Process
<1>2. RequestOK(t)
  BY DEF Undisturbed, RequestsOK
<1>3. UNCHANGED registry
  BY <1>1 DEF Load, RecordUserClientIp, UpdateUserStatus, SaveIfThere, Loaded, Unlock,
              Undisturbed, LockOK
<1>4. UNCHANGED world
  BY DEF Load, RecordUserClientIp, UpdateUserStatus
<1>5. LoginOK' /\ SecretsOK' /\ ContainersOK'
  BY <1>3, <1>4 DEF Undisturbed, LoginOK, SecretsOK, ContainersOK, Holds, Whose, Registered, world
<1>6. CASE Load(t)
  <2>1. UNCHANGED threads /\ lock'["server"] = t /\ copy'["server"] = registry
        /\ lock'["command"] = lock["command"] /\ pc[t] \in Updates
    BY <1>1, <1>6 DEF Load, GatewayTypeOK
  <2>2. RequestOK(t)' /\ Others(t)
    BY <1>2, <1>3, <1>4, <2>1 DEF RequestOK, threads, world, Holds, Whose, Registered, InSetup, Others
  <2>3. RequestsOK'
    BY <1>3, <1>4, <2>1, <2>2, KeepRequests
    DEF Undisturbed, OnlyOwnSecrets, world, threads, InSetup
  <2> QED BY <1>3, <1>5, <2>1, <2>3 DEF Undisturbed, LockOK, threads
<1>7. CASE RecordUserClientIp(t) \/ UpdateUserStatus(t)
  <2>1. lock'["server"] = Nobody /\ lock'["command"] = lock["command"]
    BY <1>1, <1>7 DEF RecordUserClientIp, UpdateUserStatus, Unlock, GatewayTypeOK
  <2>2. Moved(t)
    BY <1>2, <1>3, <1>4, <1>7, EndOK, GoOK
       DEF world, RecordUserClientIp, UpdateUserStatus, Moved, Creating
  <2>3. RequestsOK'
    BY <1>4, <1>3, <2>2, KeepRequests DEF Undisturbed, OnlyOwnSecrets, world, Moved
  <2> QED BY <1>3, <1>5, <2>1, <2>2, <2>3 DEF Undisturbed, LockOK, Moved
<1> QED BY <1>6, <1>7

\* A new user has a slug and a port that nobody has.
LEMMA RegisterOK ==
  ASSUME GatewayTypeOK, PortsOK(registry), Undisturbed, NEW t \in Servers, Register(t)
  PROVE  Undisturbed' /\ \A s \in Slugs : Registered(registry, s) =>
                           registry'.users[s] = registry.users[s]
<1> DEFINE i == user[t].identity
<1>1. /\ pc[t] = "creating" /\ job[t] = "setup" /\ i \in Identities
      /\ t # Admin /\ Loaded(t) = registry /\ UNCHANGED world
  BY DEF Register, Undisturbed, RequestsOK, RequestOK, Unlock, ProcessOf, Loaded, LockOK
<1>2. lock'["server"] = Nobody /\ lock'["command"] = lock["command"]
  BY <1>1 DEF Register, Unlock, ProcessOf, GatewayTypeOK, Process
<1>3. CASE SlugFor(registry, i) # NoSlug
  <2>1. UNCHANGED registry /\ End(t)
    BY <1>1, <1>3 DEF Register
  <2>2. RequestsOK' /\ pc'[Admin] = pc[Admin]
    BY <1>1, <2>1, EndOK, KeepRequests DEF Undisturbed, OnlyOwnSecrets, world
  <2>3. LoginOK' /\ SecretsOK' /\ ContainersOK'
    BY <1>1, <2>1 DEF Undisturbed, LoginOK, SecretsOK, ContainersOK, Holds, Whose, Registered, world
  <2> QED BY <1>2, <2>1, <2>2, <2>3 DEF Undisturbed, LockOK
<1>4. CASE SlugFor(registry, i) = NoSlug
  <2>1. PICK s \in FreeSlugs(registry), p \in FirstPort..MaxPort :
          /\ NextAvailablePort(registry, p)
          /\ registry' =
               [users |-> [registry.users EXCEPT ![s] = [identity |-> i, port |-> p]],
                login |-> [registry.login EXCEPT ![i] = s],
                next |-> p + 1]
          /\ user' = [user EXCEPT ![t] = [slug |-> s, identity |-> i, port |-> p]]
    BY <1>1, <1>4 DEF Register
  <2>2. Go(t, "storing") /\ UNCHANGED <<job, keys>>
    BY <1>1, <1>4 DEF Register
  <2>3. /\ s \in Slugs /\ ~Registered(registry, s) /\ p \in Nat /\ registry.next \in Nat
        /\ registry.next <= p
    BY <2>1 DEF FreeSlugs, FirstPort, NextAvailablePort, GatewayTypeOK, Registry
  <2>4. /\ registry.users \in [Slugs -> Entry \cup {NoEntry}]
        /\ registry.login \in [Identities -> Slugs \cup {NoSlug}]
    BY DEF GatewayTypeOK, Registry
  <2>5. /\ registry'.users[s] = [identity |-> i, port |-> p]
        /\ \A q \in Slugs \ {s} : registry'.users[q] = registry.users[q]
        /\ registry'.login[i] = s
        /\ \A j \in Identities \ {i} : registry'.login[j] = registry.login[j]
        /\ registry'.next = p + 1
    BY <1>1, <2>1, <2>3, <2>4
  <2>6. Registered(registry', s) /\ \A q \in Slugs \ {s} :
          Registered(registry', q) <=> Registered(registry, q)
    BY <1>1, <2>5 DEF Registered, NoEntry
  <2>7. registry.login[i] = NoSlug
    BY <1>1, <1>4, <2>4 DEF SlugFor, Undisturbed, LoginOK
  <2>8. LoginOK'
    <3>1. \A j \in Identities : registry'.login[j] # NoSlug =>
            /\ Registered(registry', registry'.login[j])
            /\ registry'.users[registry'.login[j]].identity = j
      BY <1>1, <2>3, <2>4, <2>5, <2>6 DEF Undisturbed, LoginOK
    <3>2. \A q \in Slugs : Registered(registry', q) =>
            registry'.login[registry'.users[q].identity] = q
      <4>1. ASSUME NEW q \in Slugs \ {s}, Registered(registry, q)
            PROVE  registry.users[q].identity \in Identities \ {i}
        BY <4>1, <2>4, <2>7 DEF Undisturbed, LoginOK, Registered, Entry, NoEntry
      <4> QED BY <1>1, <2>3, <2>5, <2>6, <4>1 DEF Undisturbed, LoginOK
    <3> QED BY <3>1, <3>2 DEF LoginOK, Registered
  <2>9. SecretsOK'
    BY <1>1, <2>3, <2>5, <2>6 DEF Undisturbed, SecretsOK, world, Registered
  <2>10. ASSUME NEW q \in Nat, NEW r, NEW j, Whose(q, r, j)
         PROVE  Whose(q, r, j)'
    BY <2>3, <2>5, <2>6, <2>10 DEF Whose, Registered
  <2>h. ASSUME NEW q \in Nat, NEW r, NEW j, Holds(q, r, j)
        PROVE  Holds(q, r, j)'
    BY <1>1, <2>10, <2>h DEF Holds, world
  <2>11. ContainersOK'
    BY <1>1, <2>h DEF Undisturbed, ContainersOK, world, GatewayTypeOK, Container
  <2>12. /\ Others(t) /\ pc'[Admin] = pc[Admin] /\ pc'[t] = "storing" /\ job'[t] = "setup"
         /\ user'[t] = [slug |-> s, identity |-> i, port |-> p]
    BY <1>1, <2>1, <2>2 DEF Go, GatewayTypeOK, Threads, Others
  <2>13. Whose(p, s, i)'
    <3>1. \A q \in Slugs : Registered(registry, q) => registry.users[q].port < registry.next
      BY DEF PortsOK
    <3>2. \A q \in Slugs : registry.users[q].port \in Nat
      BY <2>4 DEF Entry, NoEntry
    <3>3. \A q \in Slugs \ {s} : Registered(registry', q) => registry'.users[q].port # p
      BY <2>3, <2>5, <2>6, <3>1, <3>2
    <3>4. p < registry'.next /\ registry'.users[s].port = p /\ registry'.users[s].identity = i
      BY <2>3, <2>5
    <3> QED BY <2>12, <3>3, <3>4 DEF Whose, Registered
  <2>14. RequestOK(t)' /\ InSetup(t)'
    BY <1>1, <2>3, <2>5, <2>6, <2>12, <2>13 DEF RequestOK, InSetup, Creating, Registered, Whose
  <2>15. ASSUME NEW v \in Servers \ {t}
         PROVE  RequestOK(v)' /\ (InSetup(v)' => InSetup(v) /\ user[v].slug # s)
    <3>1. RequestOK(v) /\ user[v].port \in Nat
      BY DEF Undisturbed, RequestsOK, GatewayTypeOK, Threads, User
    <3>2. InSetup(v)' <=> InSetup(v)
      BY <2>12 DEF InSetup, Others
    <3>3. InSetup(v) => user[v].slug \in Slugs \ {s}
      BY <3>1, <2>3 DEF RequestOK, InSetup
    <3> QED BY <1>1, <2>5, <2>6, <2>10, <2>h, <2>12, <3>1, <3>2, <3>3
            DEF RequestOK, Others, world, Registered
  <2>16. RequestsOK'
    BY <2>12, <2>14, <2>15 DEF RequestsOK, Undisturbed, Others
  <2>17. \A q \in Slugs : Registered(registry, q) => registry'.users[q] = registry.users[q]
    BY <2>3, <2>5
  <2> QED BY <1>2, <2>8, <2>9, <2>11, <2>12, <2>16, <2>17 DEF Undisturbed, LockOK
<1> QED BY <1>3, <1>4

\* A rollback takes out the entry of its own request.
LEMMA UnregisterOK ==
  ASSUME GatewayTypeOK, Undisturbed, NEW t \in Servers, Unregister(t)
  PROVE  /\ Undisturbed'
         /\ pc[t] = "unregistering" /\ user[t] = UserOf(registry, user[t].slug)
         /\ secrets[user[t].slug] = Nobody \/ user[t].slug \in leaked
         /\ \A s \in Slugs : s # user[t].slug => registry'.users[s] = registry.users[s]
<1> DEFINE s == user[t].slug
           i == user[t].identity
<1>1. /\ pc[t] = "unregistering" /\ RequestOK(t)
      /\ t # Admin /\ Loaded(t) = registry /\ UNCHANGED world
  BY DEF Unregister, Undisturbed, RequestsOK, Unlock, ProcessOf, Loaded, LockOK
<1>2. /\ job[t] = "setup" /\ InSetup(t) /\ i \in Identities /\ s \in Slugs
      /\ Whose(user[t].port, s, i) /\ (secrets[s] = Nobody \/ s \in leaked)
      /\ Registered(registry, s) /\ registry.users[s].port = user[t].port
  BY <1>1 DEF RequestOK, InSetup, Creating
<1>3. registry.users[s].identity = i /\ registry.login[i] = s
  BY <1>2 DEF Whose, Undisturbed, LoginOK
<1>4. user[t] = UserOf(registry, s)
  BY <1>2, <1>3 DEF UserOf, GatewayTypeOK, User, Threads
<1>5. lock'["server"] = Nobody /\ lock'["command"] = lock["command"]
  BY <1>1 DEF Unregister, Unlock, ProcessOf, GatewayTypeOK, Process
<1>6. /\ registry.users \in [Slugs -> Entry \cup {NoEntry}]
      /\ registry.login \in [Identities -> Slugs \cup {NoSlug}]
      /\ registry' = WithoutFailed(registry, user[t]) /\ registry \in Registry
  BY <1>1, <1>2 DEF Unregister, GatewayTypeOK, Registry
<1>7. /\ registry'.users[s] = NoEntry /\ registry'.next = registry.next
      /\ \A q \in Slugs \ {s} : registry'.users[q] = registry.users[q]
      /\ registry'.login[i] = NoSlug
      /\ \A j \in Identities \ {i} : registry'.login[j] = registry.login[j]
  BY <1>2, <1>3, <1>6 DEF WithoutFailed, Registry
<1>8. ~Registered(registry', s) /\ \A q \in Slugs \ {s} :
        Registered(registry', q) <=> Registered(registry, q)
  BY <1>7 DEF Registered
<1>9. LoginOK'
  <2>1. \A j \in Identities : registry'.login[j] # NoSlug =>
          /\ Registered(registry', registry'.login[j])
          /\ registry'.users[registry'.login[j]].identity = j
    BY <1>2, <1>3, <1>6, <1>7, <1>8 DEF Undisturbed, LoginOK
  <2>2. \A q \in Slugs : Registered(registry', q) =>
          registry'.login[registry'.users[q].identity] = q
    <3>1. ASSUME NEW q \in Slugs \ {s}, Registered(registry, q)
          PROVE  /\ registry.users[q].identity \in Identities \ {i}
                 /\ registry.login[registry.users[q].identity] = q
      BY <3>1, <1>3, <1>6 DEF Undisturbed, LoginOK, Registered, Entry, NoEntry
    <3> QED BY <3>1, <1>7, <1>8
  <2> QED BY <2>1, <2>2 DEF LoginOK, Registered
<1>10. SecretsOK'
  BY <1>1, <1>2, <1>7, <1>8 DEF Undisturbed, SecretsOK, world, Registered
<1>11. ASSUME NEW p, NEW r, NEW j, Whose(p, r, j)
       PROVE  Whose(p, r, j)'
  BY <1>7, <1>8, <1>11 DEF Whose, Registered
<1>h. ASSUME NEW p, NEW r, NEW j, Holds(p, r, j)
      PROVE  Holds(p, r, j)'
  BY <1>1, <1>11, <1>h DEF Holds, world
<1>12. ContainersOK'
  BY <1>1, <1>h DEF Undisturbed, ContainersOK, world
<1>13. End(t)
  BY DEF Unregister
<1>14. Others(t) /\ RequestOK(t)' /\ ~InSetup(t)' /\ pc'[Admin] = pc[Admin]
  BY <1>13, EndOK
<1>15. ASSUME NEW v \in Servers \ {t}
       PROVE  RequestOK(v)' /\ (InSetup(v)' <=> InSetup(v))
  <2>1. RequestOK(v) /\ (InSetup(v)' <=> InSetup(v))
    BY <1>14 DEF Undisturbed, RequestsOK, InSetup, Others
  <2>2. InSetup(v) => user[v].slug \in Slugs \ {s}
    BY <1>2, <2>1 DEF Undisturbed, RequestsOK, RequestOK, InSetup
  <2> QED BY <1>1, <1>7, <1>8, <1>11, <1>h, <1>14, <2>1, <2>2 DEF RequestOK, Others, world, Registered
<1>16. RequestsOK'
  BY <1>14, <1>15 DEF RequestsOK, Undisturbed, Others
<1> QED BY <1>1, <1>2, <1>4, <1>5, <1>7, <1>9, <1>10, <1>12, <1>14, <1>16 DEF Undisturbed, LockOK

\* A process dies; of the command's only the idle one is met here.
LEMMA CrashOK ==
  ASSUME GatewayTypeOK, Undisturbed, NEW p \in Process, GatewayCrash(p)
  PROVE  Undisturbed'
<1>1. UNCHANGED <<registry, world>>
  BY DEF GatewayCrash
<1>2. LoginOK' /\ SecretsOK' /\ ContainersOK'
  BY <1>1 DEF Undisturbed, LoginOK, SecretsOK, ContainersOK, Holds, Whose, Registered, world
<1>3. CASE p = "server"
  <2>1. /\ \A t \in Servers : pc'[t] = "idle"
        /\ pc'[Admin] = pc[Admin] /\ lock'["server"] = Nobody
        /\ lock'["command"] = lock["command"]
    BY <1>3 DEF GatewayCrash, GatewayTypeOK, Threads, Process, ProcessOf
  <2>2. RequestsOK'
    BY <2>1 DEF RequestsOK, RequestOK, InSetup, Creating
  <2> QED BY <1>2, <2>1, <2>2 DEF Undisturbed, LockOK
<1>4. CASE p = "command"
  <2>1. /\ \A t \in Servers : /\ pc'[t] = pc[t] /\ job'[t] = job[t]
                             /\ user'[t] = user[t] /\ keys'[t] = keys[t]
        /\ pc'[Admin] = "idle" /\ lock'["server"] = lock["server"]
        /\ copy'["server"] = copy["server"] /\ lock'["command"] = Nobody
    BY <1>4 DEF GatewayCrash, GatewayTypeOK, Threads, Process, ProcessOf
  <2>2. \A t \in Servers : RequestOK(t)' /\ (InSetup(t)' <=> InSetup(t))
    BY <1>1, <2>1 DEF Undisturbed, RequestsOK, RequestOK, InSetup, Holds, Whose, Registered, world
  <2>3. RequestsOK'
    BY <2>1, <2>2 DEF Undisturbed, RequestsOK
  <2> QED BY <1>1, <1>2, <2>1, <2>3 DEF Undisturbed, LockOK
<1> QED BY <1>3, <1>4 DEF Process

\* Before the first command, every step is a server's.
LEMMA ServerStep ==
  ASSUME GatewayTypeOK, Undisturbed, [GatewayNext]_gatewayVars, commands' = 0
  PROVE  \/ \E t \in Servers : Route(t) \/ Setup(t) \/ RegistryStep(t) \/ ContainerStep(t)
         \/ \E p \in Process : GatewayCrash(p)
         \/ UNCHANGED gatewayVars
<1>1. pc[Admin] = "idle" /\ lock["command"] = Nobody /\ commands \in Nat
  BY DEF Undisturbed, GatewayTypeOK
<1>2. ~RegistryStep(Admin)
  BY <1>1 DEF RegistryStep, Load, RecordUserClientIp, UpdateUserStatus, Register, Unregister,
              Updates
<1>3. ~ContainerStep(Admin)
  BY <1>1 DEF ContainerStep, StoreCredentials, GetUserCredentials, FindContainer,
    StartContainer, RunContainer, WaitForUserHttp, RemoveContainer, DeleteUserCredentials
<1>4. ~CommandStep
  BY <1>1 DEF CommandStep, Command, SlugCommand, NewCommand, StopContainer, TrashUserDir,
    ListOrphans, FindOrphanContainers, FindStaleDirs, CleanUpContainer, CleanUpDir, CleanedUp
<1>5. ~Route(Admin) /\ ~Setup(Admin)
  BY DEF Route, Setup
<1> QED BY <1>2, <1>3, <1>4, <1>5 DEF GatewayNext, Threads

\* What a server's step does, in one place for the invariant and for the
\* action property.
LEMMA UndisturbedStep ==
  ASSUME GatewayTypeOK, PortsOK(registry), Undisturbed, [GatewayNext]_gatewayVars,
         commands = 0, commands' = 0
  PROVE  Undisturbed' /\ OwnRollback
<1>1. ASSUME NEW t \in Servers, Route(t) \/ Setup(t)
      PROVE  Undisturbed' /\ UNCHANGED registry
  BY <1>1, ArrivalOK DEF Route, Setup
<1>2. ASSUME NEW t \in Servers, ContainerStep(t)
      PROVE  Undisturbed' /\ UNCHANGED registry
  BY <1>2, ContainerStepOK
  DEF ContainerStep, StoreCredentials, GetUserCredentials, FindContainer, StartContainer,
    RunContainer, WaitForUserHttp, RemoveContainer, DeleteUserCredentials
<1>3. ASSUME (\E p \in Process : GatewayCrash(p)) \/ UNCHANGED gatewayVars
      PROVE  Undisturbed' /\ UNCHANGED registry
  <2>1. UNCHANGED registry
    BY <1>3 DEF GatewayCrash, gatewayVars
  <2>2. UNCHANGED gatewayVars => Undisturbed'
    BY DEF gatewayVars, Undisturbed, LockOK, LoginOK, SecretsOK, ContainersOK, RequestsOK,
      RequestOK, InSetup, Holds, Whose, Registered, world
  <2> QED BY <1>3, <2>1, <2>2, CrashOK
<1>4. ASSUME NEW t \in Servers, RegistryStep(t)
      PROVE  /\ Undisturbed'
             /\ \A s \in Slugs :
                  Registered(registry, s) /\ registry'.users[s] # registry.users[s] =>
                    /\ pc[t] = "unregistering" /\ user[t] = UserOf(registry, s)
                    /\ secrets[s] = Nobody \/ s \in leaked
  <2>1. CASE Load(t) \/ RecordUserClientIp(t) \/ UpdateUserStatus(t)
    BY <2>1, SavedOK
  <2>2. CASE Register(t)
    BY <2>2, RegisterOK
  <2>3. CASE Unregister(t)
    BY <2>3, UnregisterOK
  <2> QED BY <1>4, <2>1, <2>2, <2>3 DEF RegistryStep
<1> QED BY <1>1, <1>2, <1>3, <1>4, ServerStep DEF OwnRollback

\* Commands are only counted up.
LEMMA CommandsGrow ==
  ASSUME GatewayTypeOK, [GatewayNext]_gatewayVars, commands' = 0
  PROVE  commands = 0
<1>1. commands \in Nat
  BY DEF GatewayTypeOK
<1>2. commands' = commands \/ commands' = commands + 1
  BY DEF GatewayNext, gatewayVars, GatewayCrash, Route, Setup, RegistryStep, Load,
    RecordUserClientIp, UpdateUserStatus, Register, Unregister, ContainerStep,
    StoreCredentials, GetUserCredentials, FindContainer, StartContainer, RunContainer,
    WaitForUserHttp, RemoveContainer, DeleteUserCredentials, CommandStep, Command,
    SlugCommand, NewCommand, StopContainer, TrashUserDir, ListOrphans,
    FindOrphanContainers, FindStaleDirs, CleanUpContainer, CleanUpDir, CleanedUp
<1> QED BY <1>1, <1>2

-----------------------------------------------------------------------------
(* Theorems *)

\* The inductive invariant: whatever requests, commands and crashes do, ports
\* are below next_port and differ in the registry and in every loaded copy of
\* it; as long as no command has run, the registry's maps agree, and
\* credentials, containers and running requests belong to the users they say.
THEOREM GatewayInvariant == GatewaySpec => []GatewayInv
<1>1. GatewayInit => GatewayInv
  <2> SUFFICES ASSUME GatewayInit PROVE GatewayInv
    OBVIOUS
  <2>1. PortsOK(registry) /\ \A p \in Process : PortsOK(copy[p])
    BY EmptyPorts DEF GatewayInit
  <2>2. Undisturbed
    BY DEF GatewayInit, Undisturbed, LockOK, LoginOK, SecretsOK, ContainersOK, RequestsOK,
      RequestOK, InSetup, Creating, Registered, EmptyRegistry, NoContainer, Threads, Process
  <2> QED BY <2>1, <2>2, InitType DEF GatewayInv
<1>2. GatewayInv /\ [GatewayNext]_gatewayVars => GatewayInv'
  <2> SUFFICES ASSUME GatewayInv, [GatewayNext]_gatewayVars PROVE GatewayInv'
    OBVIOUS
  <2>1. GatewayTypeOK'
    BY NextType DEF GatewayInv
  <2>2. AllPortsOK'
    BY NextPorts DEF GatewayInv, AllPortsOK
  <2>3. commands' = 0 => commands = 0
    BY CommandsGrow DEF GatewayInv
  <2>4. commands' = 0 => Undisturbed'
    BY <2>3, UndisturbedStep DEF GatewayInv
  <2> QED BY <2>1, <2>2, <2>4 DEF GatewayInv, AllPortsOK
<1> QED BY <1>1, <1>2, PTL DEF GatewaySpec

\* No two users are ever given one port, even when a command and the server
\* overwrite each other's registry.
THEOREM PortsNeverShared == GatewaySpec => []PortsDiffer
<1>1. GatewayInv => PortsDiffer
  BY DEF GatewayInv, PortsOK, PortsDiffer
<1> QED BY <1>1, GatewayInvariant, PTL

\* Requests, rollbacks and crashes of the server alone never route an identity
\* to another's slug, nor its port to a container of another slug; its own
\* container has its own credentials, unless the store has kept a former user's
\* after a rollback asked it to delete them.
THEOREM UsersKeptApart == GatewaySpec => []RoutedToOwn
<1>1. GatewayInv => RoutedToOwn
  BY DEF GatewayInv, Undisturbed, LoginOK, ContainersOK, Holds, Whose, SlugFor, RoutedToOwn
<1> QED BY <1>1, GatewayInvariant, PTL

\* An entry leaves the registry only in the rollback of the request that made
\* it, after the store was asked to delete its credentials.
THEOREM RollbacksAreOwn == GatewaySpec => OnlyOwnRollback
<1>1. GatewayInv /\ [GatewayNext]_gatewayVars => [commands' = 0 => OwnRollback]_gatewayVars
  BY CommandsGrow, UndisturbedStep DEF GatewayInv
<1> QED BY <1>1, GatewayInvariant, PTL DEF GatewaySpec, OnlyOwnRollback

=============================================================================
