------------------------------- MODULE MCRemote --------------------------------
(* Connections, transfers and files: small instances of eleven components, of which the pool
   of SFTP connections is extended and the others instantiated.  They share no state; "part"
   says which of them a behaviour is about. *)
EXTENDS SftpPool, SequencesExt, TLC

CONSTANTS p22, p2222, k1, k2, c1, c2, n1, n2, o1, r1, r2, NoOne

VARIABLES part,   \* the component this behaviour is about
  dest, tmp, bak, source, transferOp, transferLink, transferCancelled, overwrites, emptied,
  published, hit, transferFaults, others, transferChanges,
  direction, batch, there, extra, target, taken, pc, i, path, batchResults, total, completed,
  removed, batchCancelled, batchLink, pooled,
  trustFile, hosts, trustLock, trustOp, reported, confirmed, sent, trusted, trustUsed,
  vault, vlock, doc, snap, mutex, journal, row, proc, ghost, routesUsed,
  ops, forwardWorker, view, start, forwardStop, main, closing,
  conn, up, down, bridgeLock, pipe,
  probeCaller, probeWorker, scope, watcher, bridge, probeStop, handed, probeOutcome, net,
  filesFile, inside, plan, at, temp, backup, kept, flagged, stopped, displaced, drifted, put,
  filesOutcome, spent,
  world, tool, checks, phase, pagesOutcome, visited, files, pagesUsed, pagesResults, cut,
  stable, cursor, basis, got, told, pagesChanges,
  id, reviewedCaller, reviewedWorker, terminal, late, registry, box, reviewedOutcome, result,
  command, held

TwoCallers == {c1, c2}
OneKey     == {k1}

Plan(kind, isRemote, dry, expects, writes) ==
  [kind |-> kind, remote |-> isRemote, dry |-> dry, expects |-> expects, writes |-> writes]
SomePlans ==
  {Plan("patch", r, FALSE, "a", "b") : r \in BOOLEAN} \cup {Plan("patch", FALSE, TRUE, "a", "b")}
    \cup {Plan("write", r, FALSE, "absent", "b") : r \in BOOLEAN}
    \cup {Plan("transfer", TRUE, FALSE, "a", "c")} \cup {Plan("trash", FALSE, FALSE, "a", "absent")}
FilesLinksAndDirectories ==
  {[name |-> n, type |-> t, opens |-> TRUE, policy |-> p] :
     n \in {n1, n2}, t \in {"file", "dir"}, p \in {"rename", "skip"}}
    \cup {[name |-> n, type |-> "link", opens |-> o, policy |-> "rename"] :
             n \in {n1, n2}, o \in BOOLEAN}
AnEntry == [name |-> n1, type |-> "file", opens |-> TRUE, policy |-> "skip"]
Trashed == Plan("trash", FALSE, FALSE, "a", "absent")

\* One transfer of two pieces; two faults; another client interferes once, and the source
\* changes once.
Transfer == INSTANCE RemoteTransfer WITH
  Ops <- {o1}, Kinds <- {"upload","copy"}, Policies <- {"fail","skip","overwrite","replace"},
  Size <- 2, MaxAttempts <- 2, MaxFaults <- 2, MaxOther <- 1, MaxChanges <- 1,
  Unstable <- {"upload","copy"}, op <- transferOp, link <- transferLink,
  cancelled <- transferCancelled, faults <- transferFaults, changes <- transferChanges
\* Two entries that may have the same name, in every direction.
Batch == INSTANCE RemoteBatch WITH
  Names <- {n1,n2}, N <- 2, Directions <- {"upload","download","delete"},
  Entries <- FilesLinksAndDirectories, results <- batchResults, cancelled <- batchCancelled,
  link <- batchLink
\* Two callers that confirm keys; keys do not change meanwhile.
Trust == INSTANCE HostTrust WITH
  Endpoints <- {p22,p2222}, Keys <- {k1,k2}, Callers <- {c1,c2},
  Hosts <- {[e \in {p22,p2222} |-> k1]}, Files <- {{}, {[at |-> {p22, p2222}, key |-> k1]}},
  MaxOps <- 2, MaxRotations <- 0, MaxCrashes <- 1, file <- trustFile, lock <- trustLock,
  op <- trustOp, used <- trustUsed
\* One caller; a key changes and the application dies.
Rotation == INSTANCE HostTrust WITH
  Endpoints <- {p22,p2222}, Keys <- {k1,k2}, Callers <- {c1},
  Hosts <- {[e \in {p22,p2222} |-> k1]}, Files <- {{}, {[at |-> {p22, p2222}, key |-> k1]}},
  MaxOps <- 2, MaxRotations <- 1, MaxCrashes <- 1, file <- trustFile, lock <- trustLock,
  op <- trustOp, used <- trustUsed
\* A route saved, edited and opened; two accesses fail and the application dies.
Store == INSTANCE RouteStore WITH
  Savers <- {"s1"}, Editor <- "ed", Opener <- "op", None <- "none", Routes <- {1,2},
  Secrets <- {1,2}, MaxRefs <- 2, MaxEdits <- 1, MaxFaults <- 2, MaxCrashes <- 1,
  used <- routesUsed
\* One forward that the user stops.
Forward == INSTANCE PortForward WITH
  MaxOps <- 1, Owners <- {"a"}, Users <- {"u"}, Stoppers <- {"s"}, Local <- FALSE,
  MaxHistory <- 1, worker <- forwardWorker, stop <- forwardStop
\* Two forwards of a rule whose owner closes.
Forwards == INSTANCE PortForward WITH
  MaxOps <- 2, Owners <- {"a"}, Users <- {"u"}, Stoppers <- {}, Local <- FALSE,
  MaxHistory <- 1, worker <- forwardWorker, stop <- forwardStop
\* Two connections of a remote forward with two requests each.
Bridge == INSTANCE ForwardBridge WITH
  Conns <- {"c1","c2"}, Requests <- 2, Blocking <- FALSE, Greets <- FALSE, lock <- bridgeLock
\* Two connections of a local forward whose target speaks first.
Greeting == INSTANCE ForwardBridge WITH
  Conns <- {"c1","c2"}, Requests <- 1, Blocking <- TRUE, Greets <- TRUE, lock <- bridgeLock
\* A probe through a jump host.
Probing == INSTANCE LoopbackProbe WITH
  Jump <- TRUE, Req <- 1, Resp <- 1, caller <- probeCaller, worker <- probeWorker,
  stop <- probeStop, outcome <- probeOutcome
\* Two calls of the file tools on one file; another program edits it.
Files == INSTANCE FileTools WITH
  Ops <- {"o1","o2"}, Values <- {"a","b","c"}, Plans <- SomePlans, Capacity <- 2,
  MaxEdits <- 1, MaxRefused <- 1, MaxLost <- 0, MaxCrashes <- 1, file <- filesFile,
  outcome <- filesOutcome
\* A search, listing or reading of three files in pages.
Pages == INSTANCE FilePages WITH
  Paths <- 1..3, Contents <- {<<1>>, <<2, 1>>, <<1, 2>>}, Hits <- {<<1>>, <<1, 2>>},
  Named <- {2}, Heavy <- {3}, MaxFiles <- 2, MaxBytes <- 3, PageSize <- 2, PageBytes <- 3,
  MaxChanges <- 1, outcome <- pagesOutcome, used <- pagesUsed, results <- pagesResults,
  changes <- pagesChanges
\* Two reviewed commands under one id.
Reviewed == INSTANCE ReviewedSsh WITH
  Runs <- {r1,r2}, Ids <- {1}, None <- NoOne, caller <- reviewedCaller,
  worker <- reviewedWorker, outcome <- reviewedOutcome

Parts ==
  {"sftp", "transfer", "batch", "trust", "rotation", "routes", "forward", "forwards",
  "bridge", "greeting", "probe", "files", "pages", "reviewed"}
ASSUME Instances ==
  /\ Transfer!TransferAssumption
  /\ Batch!BatchAssumption
  /\ Trust!TrustAssumption
  /\ Rotation!TrustAssumption
  /\ Store!StoreAssumption
  /\ Forward!BoundsAssumption
  /\ Forwards!BoundsAssumption
  /\ Bridge!BridgeAssumption
  /\ Greeting!BridgeAssumption
  /\ Probing!ProbeAssumption
  /\ Files!FileAssumption
  /\ Pages!PagesAssumption
  /\ Reviewed!ReviewedAssumption

sftpVars ==
  <<pool, idle, unverified, inflight, slots, conns, caller, calls, faults>>
transferVars ==
  <<dest, tmp, bak, source, transferOp, transferLink, transferCancelled, overwrites, emptied,
    published, hit, transferFaults, others, transferChanges>>
batchVars ==
  <<direction, batch, there, extra, target, taken, pc, i, path, batchResults, total,
    completed, removed, batchCancelled, batchLink, pooled>>
trustVars ==
  <<trustFile, hosts, trustLock, trustOp, reported, confirmed, sent, trusted, trustUsed>>
routesVars ==
  <<vault, vlock, doc, snap, mutex, journal, row, proc, ghost, routesUsed>>
forwardVars ==
  <<ops, forwardWorker, view, start, forwardStop, main, closing>>
bridgeVars ==
  <<conn, up, down, bridgeLock, pipe>>
probeVars ==
  <<probeCaller, probeWorker, scope, watcher, bridge, probeStop, handed, probeOutcome, net>>
filesVars ==
  <<filesFile, inside, plan, at, temp, backup, kept, flagged, stopped, displaced, drifted, put,
    filesOutcome, spent>>
pagesVars ==
  <<world, tool, checks, phase, pagesOutcome, visited, files, pagesUsed, pagesResults, cut,
    stable, cursor, basis, got, told, pagesChanges>>
reviewedVars ==
  <<id, reviewedCaller, reviewedWorker, terminal, late, registry, box, reviewedOutcome,
    result, command, held>>
all ==
  <<part, sftpVars, transferVars, batchVars, trustVars, routesVars, forwardVars, bridgeVars,
  probeVars, filesVars, pagesVars, reviewedVars>>

\* The components a behaviour is not about stay in one initial state.
PartsInit ==
  /\ part \in Parts
  /\ Init
  /\ Transfer!Init
  /\ part = "transfer" \/ (dest = Transfer!Absent /\ ~overwrites /\ transferOp[o1].kind = "copy" /\ transferOp[o1].policy = "skip")
  /\ Batch!Init
  /\ part = "batch" \/ (direction = "upload" /\ batch[1] = AnEntry /\ batch[2] = AnEntry /\ taken = {})
  /\ CASE part = "rotation" -> Rotation!Init
       [] OTHER -> Trust!Init
  /\ part \in {"trust", "rotation"} \/ trustFile = {}
  /\ Store!Init
  /\ CASE part = "forwards" -> Forwards!Init
       [] OTHER -> Forward!Init
  /\ CASE part = "greeting" -> Greeting!Init
       [] OTHER -> Bridge!Init
  /\ Probing!Init
  /\ Files!Init
  /\ part = "files" \/ (filesFile = "a" /\ plan = [o \in {"o1", "o2"} |-> Trashed])
  /\ Pages!Init
  /\ part = "pages" \/ (tool = "list" /\ checks /\ world = [p \in 1..3 |-> Pages!Gone])
  /\ Reviewed!Init

PartsNext ==
  /\ UNCHANGED part
  /\ \/ part = "sftp" /\ Next
     \/ part = "transfer" /\ Transfer!Next
     \/ part = "batch" /\ Batch!Next
     \/ part = "trust" /\ Trust!Next
     \/ part = "rotation" /\ Rotation!Next
     \/ part = "routes" /\ Store!Next
     \/ part = "forward" /\ Forward!Next
     \/ part = "forwards" /\ Forwards!Next
     \/ part = "bridge" /\ Bridge!Next
     \/ part = "greeting" /\ Greeting!Next
     \/ part = "probe" /\ Probing!Next
     \/ part = "files" /\ Files!Next
     \/ part = "pages" /\ Pages!Next
     \/ part = "reviewed" /\ Reviewed!Next
  /\ part # "sftp" => UNCHANGED sftpVars
  /\ part # "transfer" => UNCHANGED transferVars
  /\ part # "batch" => UNCHANGED batchVars
  /\ part \notin {"trust", "rotation"} => UNCHANGED trustVars
  /\ part # "routes" => UNCHANGED routesVars
  /\ part \notin {"forward", "forwards"} => UNCHANGED forwardVars
  /\ part \notin {"bridge", "greeting"} => UNCHANGED bridgeVars
  /\ part # "probe" => UNCHANGED probeVars
  /\ part # "files" => UNCHANGED filesVars
  /\ part # "pages" => UNCHANGED pagesVars
  /\ part # "reviewed" => UNCHANGED reviewedVars

PartsSpec == PartsInit /\ [][PartsNext]_all

\* What tells two states apart: the rest does not change.
Seen == <<part, CASE part = "sftp" -> sftpVars
                 [] part = "transfer" -> transferVars
                 [] part = "batch" -> batchVars
                 [] part \in {"trust", "rotation"} -> trustVars
                 [] part = "routes" -> routesVars
                 [] part \in {"forward", "forwards"} -> forwardVars
                 [] part \in {"bridge", "greeting"} -> bridgeVars
                 [] part = "probe" -> probeVars
                 [] part = "files" -> filesVars
                 [] part = "pages" -> pagesVars
                 [] part = "reviewed" -> reviewedVars>>

(* ------------------------------- properties ------------------------------- *)

\* Each component's state keeps its shape.
PartsTypeOK ==
  CASE part = "sftp" -> TypeOK
    [] part = "transfer" -> Transfer!TypeOK
    [] part = "batch" -> Batch!TypeOK
    [] part = "trust" -> Trust!TypeOK
    [] part = "rotation" -> Rotation!TypeOK
    [] part = "routes" -> Store!TypeOK
    [] part = "forward" -> Forward!TypeOK
    [] part = "forwards" -> Forwards!TypeOK
    [] part = "bridge" -> Bridge!TypeOK
    [] part = "greeting" -> Greeting!TypeOK
    [] part = "probe" -> Probing!TypeOK
    [] part = "files" -> Files!TypeOK
    [] part = "pages" -> Pages!TypeOK
    [] part = "reviewed" -> Reviewed!TypeOK

\* Nothing that was there is lost, and nothing half-made takes its place, whichever step fails
\* or is cut off by a crash: files being transferred, files being replaced, the secrets and
\* rows of routes, what a target answered through a forward (remote_fs.rs, file tools, route
\* store).  Not claimed, because the code lets it happen: a file tool replaces what another
\* program wrote after the last look at the file (filesystem.rs:1828-1837); a cancellation that
\* comes before its call is registered is lost (filesystem.rs:96); a link that cannot be
\* fetched is an empty file and completed (remote_fs.rs:1646-1649); a transfer whose source
\* changes is of the size it had before (remote_fs.rs:2404); and a secret that could be neither
\* kept nor deleted, two faults, is forgotten (llm/routes.rs:407).
NothingLost ==
  /\ part = "transfer" => Transfer!NoPartialFile /\ Transfer!NeverLost
  /\ part = "batch" => Batch!CompletedIsThere /\ Batch!DeletesWhatItListed
  /\ part = "files" => Files!ReplacesWhatWasReviewed /\ Files!NothingVanishes /\ Files!TakenIsPutBack
                         /\ Files!StopsInTime
  /\ part = "bridge" => Bridge!NoChunkLost
  /\ part = "greeting" => Greeting!NoChunkLost
  /\ part = "routes" => Store!CommittedResolves /\ Store!FrozenResolves
                          /\ (routesUsed.faults < 2 => Store!NoOrphans)

\* What a caller is told is so: a completed transfer, entry or command has happened, a list of
\* pages is one result and says when it stopped early, a probe that succeeded has ended, and
\* an identity is sent only to a host whose key was confirmed.
ReportsTheTruth ==
  /\ part = "transfer" => Transfer!ReportsTheTruth /\ Transfer!CountedOnce
  /\ part = "batch" => Batch!EveryEntryReported
  /\ part = "pages" => Pages!PagesAreOneResult /\ Pages!CompleteIsAll /\ Pages!NothingMissedSilently
  /\ part = "reviewed" => Reviewed!ResultIsVerdict /\ Reviewed!CancelReachesIt /\ Reviewed!CompletedRan
  /\ part = "probe" => Probing!EndsComeLast /\ Probing!NothingLeft
  /\ part = "trust" => Trust!OnlyConfirmed /\ Trust!FileIsWhatWasAsked /\ Trust!ReportIsComplete
                         /\ Trust!CancelledSendsNothing
  /\ part = "rotation" => Rotation!OnlyConfirmed /\ Rotation!FileIsWhatWasAsked /\ Rotation!ReportIsComplete
  /\ part = "routes" => Store!SnapshotIsCommitted /\ Store!OwnSecrets /\ Store!RefusedChangesNothing
  /\ part = "forward" => Forward!OneWorker
  /\ part = "forwards" => Forwards!OneWorker

\* No late or repeated step undoes what was settled: no policy is overruled, no download
\* displaced, no ended forward revived, no verdict replaced.
SettledStays ==
  [][/\ part = "transfer" => Transfer!Respects
     /\ part = "batch" => Batch!DisplacesNothing
     /\ part = "forwards" => Forwards!KeepsFinal
     /\ part = "reviewed" => Reviewed!KeepsFirst]_all
================================================================================
