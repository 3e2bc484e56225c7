------------------------------ MODULE ProtoFetch ------------------------------
(***************************************************************************)
(* ProtoFetch and CLI of scripts/update_protobufs.py: main's argument    *)
(* check and ProtoGenerator.ensure_protobufs (run_command over git clone, *)
(* fetch, checkout and pull --rebase, is_branch), up to the point where  *)
(* run() goes on to generate.  Successive runs of the script share the   *)
(* hedera-protos-git directory; a run may be killed while cloning.       *)
(*                                                                         *)
(* A commit is <<ref, version>>.  The remote's refs are fixed: a branch  *)
(* points at its latest version, a tag at the version it was made on.    *)
(* The clone's knowledge of the remote (remote-tracking refs and tags)  *)
(* is known; its local branches are local.  A git command run while the  *)
(* remote is unreachable may fail; a local checkout fails only on a ref  *)
(* the clone does not know, or in a clone left broken by a crash.        *)
(***************************************************************************)
EXTENDS Naturals, Functions, TLC

CONSTANTS
  Tags, Branches,        \* the remote's refs
  RemoteHead,            \* ref -> the commit the remote has for it
  DEFAULT_CHECKOUT_REF,  \* ProtoGenerator.DEFAULT_CHECKOUT_REF
  DefaultBranch,         \* the branch a fresh clone checks out
  Args,                  \* the argument lists main can be given
  NoArg, TooMany,        \* no argument; more than one
  Clones,                \* the states hedera-protos-git may start in
  CanCrash,              \* a run may be killed during git clone
  MaxRuns                \* how many runs of the script are explored

Refs == Tags \cup Branches
Commit == Refs \X Nat

VARIABLES
  cloned,     \* hedera-protos-git exists
  broken,     \* ... but holds a clone that was cut short
  known,      \* the clone's remote-tracking refs and tags
  local,      \* the clone's local branches
  head,       \* the commit checked out
  arg,        \* the arguments of this run: NoArg, a ref, or TooMany
  ref,        \* checkout_ref of ensure_protobufs
  reachable,  \* the remote answers during this run
  pc,
  runs        \* runs started so far

vars == <<cloned, broken, known, local, head, arg, ref, reachable, pc, runs>>

-----------------------------------------------------------------------------
(* A git command that needs the remote. *)
NetworkOk == ~broken /\ reachable

Init ==
  /\ \E c \in Clones :
       /\ cloned = c.cloned /\ broken = FALSE
       /\ known = c.known /\ local = c.local /\ head = c.head
  /\ arg \in Args
  /\ ref = NoArg
  /\ reachable \in BOOLEAN
  /\ pc = "main"
  /\ runs = 1

(* main: more than one argument; exit(1). *)
MainBadArgs ==
  /\ pc = "main"
  /\ arg = TooMany
  /\ pc' = "exited"
  /\ UNCHANGED <<cloned, broken, known, local, head, arg, ref, reachable, runs>>

(* A slip in main: the argument count not checked. *)
MainNoArgCheck ==
  /\ pc = "main"
  /\ ref' = IF arg = NoArg THEN DEFAULT_CHECKOUT_REF ELSE arg
  /\ pc' = "exists"
  /\ UNCHANGED <<cloned, broken, known, local, head, arg, reachable, runs>>

(* A slip in ensure_protobufs: the argument ignored. *)
MainDefaultOnly ==
  /\ pc = "main"
  /\ arg # TooMany
  /\ ref' = DEFAULT_CHECKOUT_REF
  /\ pc' = "exists"
  /\ UNCHANGED <<cloned, broken, known, local, head, arg, reachable, runs>>

(* main -> run(checkout_ref); ensure_protobufs falls back to            *)
(* DEFAULT_CHECKOUT_REF when none was given.                             *)
Main ==
  /\ pc = "main"
  /\ arg # TooMany
  /\ ref' = IF arg = NoArg THEN DEFAULT_CHECKOUT_REF ELSE arg
  /\ pc' = "exists"
  /\ UNCHANGED <<cloned, broken, known, local, head, arg, reachable, runs>>

(* proto_path.exists(): "Detected existing protobufs". *)
Detected ==
  /\ pc = "exists"
  /\ cloned
  /\ pc' = "fetch"
  /\ UNCHANGED <<cloned, broken, known, local, head, arg, ref, reachable, runs>>

(* git clone succeeds: every remote ref known, the default branch local. *)
Clone ==
  /\ pc = "exists"
  /\ ~cloned
  /\ reachable
  /\ cloned' = TRUE
  /\ known' = RemoteHead
  /\ local' = (DefaultBranch :> RemoteHead[DefaultBranch])
  /\ head' = RemoteHead[DefaultBranch]
  /\ pc' = "fetch"
  /\ UNCHANGED <<broken, arg, ref, reachable, runs>>

(* git clone fails: "Failed to clone repository. Exiting." *)
CloneFails ==
  /\ pc = "exists"
  /\ ~cloned
  /\ ~reachable
  /\ pc' = "exited"
  /\ UNCHANGED <<cloned, broken, known, local, head, arg, ref, reachable, runs>>

(* The process is killed while git clone runs: the directory stays. *)
CloneCrashes ==
  /\ pc = "exists"
  /\ ~cloned
  /\ CanCrash
  /\ cloned' = TRUE /\ broken' = TRUE
  /\ pc' = "crashed"
  /\ UNCHANGED <<known, local, head, arg, ref, reachable, runs>>

(* git fetch: the remote's refs become known. *)
Fetch ==
  /\ pc = "fetch"
  /\ NetworkOk
  /\ known' = RemoteHead
  /\ pc' = "checkout"
  /\ UNCHANGED <<cloned, broken, local, head, arg, ref, reachable, runs>>

(* git fetch fails: "Continuing with existing state." *)
FetchFails ==
  /\ pc = "fetch"
  /\ ~NetworkOk
  /\ pc' = "checkout"
  /\ UNCHANGED <<cloned, broken, known, local, head, arg, ref, reachable, runs>>

(* git checkout ref succeeds on a ref the clone knows. *)
CheckoutSucceeds(r) ==
  ~broken /\ (r \in DOMAIN local \/ r \in DOMAIN known)

(* git checkout ref: a local branch as it is; a branch only known       *)
(* remotely gets a local branch tracking it; a tag is checked out       *)
(* detached.                                                             *)
Checkout ==
  /\ pc = "checkout"
  /\ CheckoutSucceeds(ref)
  /\ head' = IF ref \in DOMAIN local THEN local[ref] ELSE known[ref]
  /\ local' = IF ref \in Branches /\ ref \notin DOMAIN local
              THEN local @@ (ref :> known[ref]) ELSE local
  /\ pc' = "branch"
  /\ UNCHANGED <<cloned, broken, known, arg, ref, reachable, runs>>

(* git checkout fails: "Failed to checkout ... Exiting." *)
CheckoutFails ==
  /\ pc = "checkout"
  /\ ~CheckoutSucceeds(ref)
  /\ pc' = "exited"
  /\ UNCHANGED <<cloned, broken, known, local, head, arg, ref, reachable, runs>>

(* is_branch: git branch --list lists no local branch of that name. *)
NotBranch ==
  /\ pc = "branch"
  /\ ref \notin DOMAIN local
  /\ pc' = "generate"
  /\ UNCHANGED <<cloned, broken, known, local, head, arg, ref, reachable, runs>>

(* git pull --rebase brings the branch to the remote's head. *)
Pull ==
  /\ pc = "branch"
  /\ ref \in DOMAIN local
  /\ NetworkOk
  /\ local' = [local EXCEPT ![ref] = RemoteHead[ref]]
  /\ head' = RemoteHead[ref]
  /\ known' = (ref :> RemoteHead[ref]) @@ known
  /\ pc' = "generate"
  /\ UNCHANGED <<cloned, broken, arg, ref, reachable, runs>>

(* git pull fails: "Continuing with current state." *)
PullFails ==
  /\ pc = "branch"
  /\ ref \in DOMAIN local
  /\ ~NetworkOk
  /\ pc' = "generate"
  /\ UNCHANGED <<cloned, broken, known, local, head, arg, ref, reachable, runs>>

(* The script is run again, the remote reachable or not. *)
Rerun ==
  /\ pc \in {"exited", "crashed", "generate"}
  /\ runs < MaxRuns
  /\ reachable' \in BOOLEAN
  /\ arg' \in Args
  /\ ref' = NoArg
  /\ pc' = "main"
  /\ runs' = runs + 1
  /\ UNCHANGED <<cloned, broken, known, local, head>>

(* No further run. *)
Finished ==
  /\ pc \in {"exited", "crashed", "generate"}
  /\ runs = MaxRuns
  /\ UNCHANGED vars

Next ==
  \/ MainBadArgs \/ Main
  \/ Detected \/ Clone \/ CloneFails \/ CloneCrashes
  \/ Fetch \/ FetchFails
  \/ Checkout \/ CheckoutFails
  \/ NotBranch \/ Pull \/ PullFails
  \/ Rerun \/ Finished

Spec == Init /\ [][Next]_vars

-----------------------------------------------------------------------------
TypeOK ==
  /\ cloned \in BOOLEAN /\ broken \in BOOLEAN
  /\ DOMAIN known \subseteq Refs /\ Range(known) \subseteq Commit
  /\ DOMAIN local \subseteq Branches /\ Range(local) \subseteq Commit
  /\ head \in Commit
  /\ arg \in Args
  /\ ref \in (Args \ {TooMany}) \cup {DEFAULT_CHECKOUT_REF}
  /\ reachable \in BOOLEAN
  /\ pc \in {"main", "exists", "fetch", "checkout", "branch",
             "generate", "exited", "crashed"}
  /\ runs \in 1 .. MaxRuns

Requested == IF arg = NoArg THEN DEFAULT_CHECKOUT_REF ELSE arg

(* Generation starts on a commit of the ref the user asked for, or of   *)
(* DEFAULT_CHECKOUT_REF when none was given: never on what the clone     *)
(* happened to have checked out before.                                  *)
GeneratesRequestedRef ==
  pc = "generate" => head[1] = Requested

(* A run gives up (exit 1) only when it was given too many arguments,   *)
(* or the remote cannot be reached, or the ref does not exist there:    *)
(* with the remote reachable, ensure_protobufs gets the ref.             *)
AbortsOnlyWhenUnreachable ==
  pc = "exited" /\ reachable =>
    arg = TooMany \/ Requested \notin DOMAIN RemoteHead
=============================================================================
