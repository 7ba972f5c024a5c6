------------------------------ MODULE Gateway ------------------------------
(***************************************************************************)
(* The gateway as one system: the contents the configuration file has      *)
(* (GatewayState's Configs) reach the shared state through the watcher,    *)
(* the admin API and the lock of ControlPlane.  Whether a reload is        *)
(* refused, applied or stops half way, which ControlPlane leaves open, is  *)
(* decided here by what diff_update and from_config do with the content    *)
(* that was read, on the state they find when the lock is theirs.          *)
(***************************************************************************)
EXTENDS GatewayState

CONSTANTS
  Watcher, Admins, Requests, Nobody, Torn, OpensReported,
  MaxVersion, MaxQueue,            \* see ControlPlane
  ContentOf,                       \* the configuration a content of the file is, if any
  Unparsable                       \* content that is not a configuration

ASSUME ContentAssumption ==
  /\ ContentOf \in [0 .. 2 * MaxVersion -> Configs \union {Unparsable}]
  /\ Unparsable \notin Configs
  /\ ContentOf[0] # Unparsable

ASSUME ThreadsAssumption ==
  /\ Watcher \notin Admins /\ Nobody \notin {Watcher} \union Admins
  /\ MaxVersion \in Nat /\ MaxQueue \in Nat \ {0}
  /\ Torn \notin 0 .. 2 * MaxVersion
  /\ OpensReported \in BOOLEAN

VARIABLES
  file, kernel, queue, pc, loaded, peeked, writer, readers, early,  \* see ControlPlane
  version  \* history: the content that was last applied without an error

Parses(k) == ContentOf[k] # Unparsable

Numbers == DOMAIN ContentOf

(* What the outcome of a reload of content k may be.                       *)
MayBuild == {k \in Numbers : Parses(k) /\ FromConfigOk(ContentOf[k], {})}
MayFail  == {k \in Numbers : ~Parses(k) \/ ~FromConfigOk(ContentOf[k], Fallible)}
MayTear  == {k \in MayFail : Parses(k) /\ Valid(ContentOf[k])}
Limited  == {k \in Numbers : Parses(k) /\ ContentOf[k].limit # None}

C == INSTANCE ControlPlane WITH
       Accepted   <- MayBuild,
       Refused    <- MayFail,
       Tearing    <- MayTear,
       HasLimiter <- Limited,
       Callers    <- {},
       serving    <- IF clean THEN version ELSE Torn

state   == <<vars, version>>
threads == <<file, kernel, queue, pc, loaded, peeked, writer, readers, early>>

GatewayInit ==
  /\ Init
  /\ snapshot = ContentOf[0]
  /\ version = 0
  /\ C!Init

-----------------------------------------------------------------------------
(* The steps of ControlPlane that leave the state alone.                   *)

Outside ==
  /\ UNCHANGED state
  /\ C!WriteFile \/ C!OtherFile \/ C!Deliver

Listen ==
  /\ UNCHANGED state
  /\ C!Watch \/ C!Recv \/ C!Settle

\* The admin API is served once main has registered the health services.
Begin(p) == booted /\ UNCHANGED state /\ C!Begin(p)

Lock(p) == UNCHANGED state /\ (C!AskLock(p) \/ C!Lock(p))

\* A request, or main when it registers the health services, reads the state.
ReadLock(r)   == booted /\ UNCHANGED state /\ C!ReadLock(r)
ReadUnlock(r) == UNCHANGED state /\ C!ReadUnlock(r)

Boot ==
  /\ writer = Nobody
  /\ \A p \in C!Threads : pc[p] # "wait"
  /\ RegisterHealthServices
  /\ UNCHANGED <<version, threads>>

-----------------------------------------------------------------------------
(* The steps of a reload that look at the configuration.                   *)

\* reload_simple builds the whole new state before it asks for the lock;
\* reload_diff looks only whether the file parses and its routes have upstreams.
Likes(p, lost) ==
  /\ Parses(file)
  /\ IF p = Watcher THEN UpstreamsExist(ContentOf[file]) ELSE FromConfigOk(ContentOf[file], lost)

Load(p) ==
  /\ UNCHANGED state
  /\ \E lost \in SUBSET Fallible : C!Read(p, Likes(p, lost))

\* reload_simple puts the state it has built in place: it cannot fail any more.
Install(p) ==
  /\ p # Watcher
  /\ ReloadSimple(ContentOf[loaded[p]], {})
  /\ version' = loaded[p]

\* reload_diff hands what it has read to diff_update.
Update(p) ==
  /\ p = Watcher
  /\ \E lost \in SUBSET Fallible : DiffUpdate(ContentOf[loaded[p]], lost)
  /\ version' = IF reply' = "ok" THEN loaded[p] ELSE version

Apply(p) ==
  /\ C!MayApply(p)
  /\ Install(p) \/ Update(p)
  /\ C!Release(p)

GatewayNext ==
  \/ Outside \/ Listen \/ Boot
  \/ \E p \in C!Threads : Begin(p) \/ Load(p) \/ Lock(p) \/ Apply(p)
  \/ \E r \in Requests : ReadLock(r) \/ ReadUnlock(r)

GatewayFairness ==
  /\ WF_<<state, threads>>(Outside /\ kernel' < kernel)
  /\ WF_<<state, threads>>(Listen)
  /\ \A p \in C!Threads :
       /\ WF_<<state, threads>>(Load(p))
       /\ SF_<<state, threads>>(Lock(p))
       /\ WF_<<state, threads>>(Apply(p))
  /\ \A r \in Requests : WF_<<state, threads>>(ReadUnlock(r))

GatewaySpec ==
  GatewayInit /\ [][GatewayNext]_<<state, threads>> /\ GatewayFairness

-----------------------------------------------------------------------------
(* Properties.                                                             *)

\* A request finds the router, the registry, the clusters, the limiter and the
\* authentication of one configuration from its read lock to its unlock,
\* although diff_update changes them one after the other.
RequestsSeeOneState == [][readers \intersect readers' # {} => UNCHANGED served]_<<served, readers>>

\* Unless an update has failed half way, the parts serve the whole of one
\* content of the file: the one that was read by the reload that came last,
\* whatever was written and read since.
VersionInEffect == clean => Serves(ContentOf[version])

\* What the theorems of Gateway_proofs rest on: the snapshot is the content last
\* applied, and a thread on its way to the lock has read what it may apply.
Prepared ==
  /\ file \in Numbers /\ version \in Numbers
  /\ snapshot = ContentOf[version]
  /\ pc \in [C!Threads -> C!Stages]
  /\ loaded \in [C!Threads -> Numbers]
  /\ \A p \in C!Threads :
       pc[p] \in {"lock", "wait", "apply"} =>
         IF p = Watcher THEN Parses(loaded[p]) ELSE loaded[p] \in MayBuild
  /\ readers # {} => booted

\* ControlPlane, which knows of a content only whether a reload may accept it,
\* refuse it or stop half way, allows every step.
ActsAsControlPlane == C!Init /\ [][C!Next]_(C!vars)

\* When the file is left alone with a content that no reload refuses, its
\* routes, clusters, limiter and authentication are in effect in the end, if it
\* was written after the watch was registered and no update has failed half way,
\* or if the admin API keeps asking for full reloads.
FileTakesEffect ==
  C!Quiet => \A k \in C!Good :
    /\ <>[](file = k)
    /\ <>[](clean /\ ~early) \/ []<>(\E p \in Admins : pc[p] = "load")
    => <>[]Serves(ContentOf[k])
=============================================================================
