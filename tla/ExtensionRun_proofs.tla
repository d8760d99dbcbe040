------------------------ MODULE ExtensionRun_proofs ------------------------
(***************************************************************************)
(* ExtensionRun for all projects, sites, command lines and numbers of      *)
(* commands: its types, and what it promises about the files.              *)
(***************************************************************************)
EXTENDS ExtensionRun, SequenceLemmas, FiniteSetTheorems

Homes == {NoHome, Cwd} \cup {RunDir(t) : t \in 0 .. MaxTime}

Shape ==
    /\ now \in 0 .. MaxTime
    /\ pc \in [Jobs -> Steps]
    /\ args \in [Jobs -> Invocations \cup {NoArgs}]
    /\ exit \in [Jobs -> {-1, 0, 1, 3, 4, 5, 6}]
    /\ DOMAIN home = Jobs /\ DOMAIN analysis = Jobs /\ DOMAIN discovery = Jobs
    /\ DOMAIN report = Jobs /\ DOMAIN plan = Jobs /\ DOMAIN written = Jobs
    /\ DOMAIN seen = Jobs

\* Where there is a manifest, complete or torn, there is README.md, which makes
\* CheckTargets refuse the directory; and it lists nothing that is not there.
GoodManifests ==
    \A path \in DOMAIN disk : path.file = ManifestFile =>
        /\ Path(path.dir, ReadmeFile) \in DOMAIN disk
        /\ \A file \in disk[path].files : Path(path.dir, file) \in DOMAIN disk

\* The steps of each command.
RightCommand(j) ==
    /\ pc[j] \in {"preflight", "quality", "git", "confirm"} => args[j].command = "run"
    /\ pc[j] \in {"load", "load_ui", "load_report", "preview"} => args[j].command = "scaffold"
    /\ pc[j] \in {"analyze", "discover", "report"} => args[j].command \in {"run", "analyze"}

\* What a job has written so far is there.
Written(j) ==
    /\ written[j] \subseteq DOMAIN plan[j].files
    /\ pc[j] \notin {"write", "done"} => written[j] = {}
    /\ \A n \in written[j] : Target(j, n) \in DOMAIN disk

\* From the check on, nothing the job may write was there at the check.
Unclaimed(j) ==
    /\ seen[j] \subseteq DOMAIN disk
    /\ pc[j] \in {"confirm", "check", "write"} => Path(Root(j), ReadmeFile) \in TargetPaths(j)
    /\ (pc[j] = "write" /\ ~args[j].overwrite) =>
          TargetPaths(j) \cap seen[j] = {} /\ ManifestPath(j) \notin seen[j]

Reached(j) == /\ discovery[j] # <<>> /\ ~IsLogin(discovery[j][1])
              /\ \/ ~MostlyLogins(discovery[j])
                 \/ ~NoElements(discovery[j])
                 \/ report[j].summary.application # 0

\* Past the quality gate the discovery is one that reached the application.
Gated(j) ==
    /\ pc[j] = "quality" =>
          report[j] = BuildReport(analysis[j], discovery[j], args[j].url, args[j].planned)
    /\ (args[j].command = "run" /\ args[j].url
          /\ (pc[j] \in {"git", "confirm", "check", "write"} \/ written[j] # {})) => Reached(j)

Honest(j) ==
    /\ pc[j] # "done" => exit[j] = -1
    /\ (exit[j] = 0 /\ AsksForFiles(j)) =>
          TargetPaths(j) \cup {ManifestPath(j)} \subseteq DOMAIN disk
    /\ exit[j] \in {3, 4, 5, 6} => written[j] = {}

JobInv(j) ==
    /\ home[j] \in Homes
    /\ RightCommand(j) /\ Written(j) /\ Unclaimed(j) /\ Gated(j) /\ Honest(j)

RInv == Shape /\ GoodManifests /\ \A j \in Jobs : JobInv(j)

----------------------------------------------------------------------------

\* Only job j's components change.
Only(j) ==
    \A k \in Jobs \ {j} :
        /\ pc'[k] = pc[k] /\ args'[k] = args[k] /\ home'[k] = home[k]
        /\ analysis'[k] = analysis[k] /\ discovery'[k] = discovery[k]
        /\ report'[k] = report[k] /\ plan'[k] = plan[k] /\ written'[k] = written[k]
        /\ exit'[k] = exit[k] /\ seen'[k] = seen[k]

Grows == DOMAIN disk \subseteq DOMAIN disk'

\* The plan always has README.md.
LEMMA PlanHasReadme ==
    ASSUME NEW a, NEW p, NEW r, NEW t
    PROVE  \E n \in DOMAIN ScaffoldPlan(a, p, r, t).files :
               ScaffoldPlan(a, p, r, t).files[n] = Readme
  BY DEF ScaffoldPlan

\* A report that is not BLOCKED is one of a discovery that is not empty and,
\* when it was asked for by URL, does not begin at a login page.
LEMMA NotBlocked ==
    ASSUME NEW a, NEW p, NEW u, NEW w, BuildReport(a, p, u, w).quality.level # "BLOCKED"
    PROVE  p # <<>> /\ (u => ~IsLogin(p[1]))
  <1>1. BuildReport(a, p, u, w).quality
          = DiscoveryQuality(p, u, Summary(CallsOf(p), Classification(p)))
    BY DEF BuildReport
  <1>2. QED  BY <1>1 DEF DiscoveryQuality

\* Nor is it one that lost 35 + 40 + 30 points, which leaves a score of zero.
LEMMA NotWorthless ==
    ASSUME NEW a, NEW p, NEW w, BuildReport(a, p, TRUE, w).quality.level # "BLOCKED"
    PROVE  \/ ~MostlyLogins(p) \/ ~NoElements(p)
           \/ BuildReport(a, p, TRUE, w).summary.application # 0
  <1> DEFINE summary == Summary(CallsOf(p), Classification(p))
  <1>1. /\ BuildReport(a, p, TRUE, w).quality = DiscoveryQuality(p, TRUE, summary)
        /\ BuildReport(a, p, TRUE, w).summary = summary
    BY DEF BuildReport
  <1>2. p # <<>> /\ ~IsLogin(p[1])  BY NotBlocked
  <1>3. ASSUME MostlyLogins(p), NoElements(p), summary.application = 0
        PROVE  DiscoveryQuality(p, TRUE, summary).level = Level(0)
    <2> HIDE DEF summary
    <2> QED  BY <1>2, <1>3 DEF DiscoveryQuality
  <1>4. Level(0) = "BLOCKED"  BY DEF Level
  <1>5. QED  BY <1>1, <1>3, <1>4

\* Put keeps what is there but for the file it writes.
LEMMA PutDomain ==
    ASSUME NEW path, NEW content, Put(path, content)
    PROVE  /\ DOMAIN disk' = DOMAIN disk \cup {path}
           /\ disk'[path] = content
           /\ \A q \in DOMAIN disk : q # path => disk'[q] = disk[q]
  BY DEF Put

\* A file that is no manifest may be written without harm to the manifests.
LEMMA PutKeeps ==
    ASSUME GoodManifests, NEW path, NEW content, Put(path, content),
           path.file # ManifestFile
    PROVE  GoodManifests' /\ Grows /\ path \in DOMAIN disk'
  <1>1. /\ DOMAIN disk' = DOMAIN disk \cup {path}
        /\ \A q \in DOMAIN disk : q # path => disk'[q] = disk[q]
    BY PutDomain
  <1>2. QED  BY <1>1 DEF GoodManifests, Grows, ReadmeFile, ManifestFile, Path

\* Reports and generated files have other names than the manifest.
LEMMA OtherNames ==
    /\ \A d : Path(d, SyncReport).file # ManifestFile
    /\ \A d : Path(d, DiscoveryReport).file # ManifestFile
    /\ \A d : Path(d, ExtensionReport).file # ManifestFile
    /\ \A j, n : Target(j, n).file # ManifestFile
  BY DEF Path, SyncReport, DiscoveryReport, ExtensionReport, ManifestFile, Target

\* The other jobs see a disk that has grown and nothing else.
LEMMA OthersKeep ==
    ASSUME RInv, NEW j \in Jobs, Only(j), Grows, NEW k \in Jobs \ {j}
    PROVE  JobInv(k)'
  <1>1. JobInv(k)  BY DEF RInv
  <1>2. Root(k)' = Root(k)  BY DEF Only, Root
  <1>3. /\ \A n : Target(k, n)' = Target(k, n)
        /\ ManifestPath(k)' = ManifestPath(k)
        /\ TargetPaths(k)' = TargetPaths(k)
    BY <1>2 DEF Only, Target, ManifestPath, TargetPaths
  <1>4. RightCommand(k)' /\ home'[k] \in Homes  BY <1>1 DEF JobInv, RightCommand, Only
  <1>5. Written(k)'  BY <1>1, <1>3 DEF JobInv, Written, Only, Grows
  <1>6. Unclaimed(k)'  BY <1>1, <1>2, <1>3 DEF JobInv, Unclaimed, Only, Grows
  <1>7. Gated(k)'  BY <1>1 DEF JobInv, Gated, Reached, Only
  <1>8. Honest(k)'  BY <1>1, <1>3 DEF JobInv, Honest, AsksForFiles, Only, Grows
  <1>9. QED  BY <1>4, <1>5, <1>6, <1>7, <1>8 DEF JobInv, Homes

LEMMA Composed ==
    ASSUME RInv, NEW j \in Jobs, Only(j), Grows, Shape', GoodManifests', JobInv(j)'
    PROVE  RInv'
  BY OthersKeep DEF RInv

\* The disk where no file is written.
LEMMA SameDisk ==
    ASSUME GoodManifests, UNCHANGED disk
    PROVE  GoodManifests' /\ Grows
  BY DEF GoodManifests, Grows

\* A job that stops keeps its invariant when the exit code is true, whatever it
\* writes as it does.
LEMMA StoppingWith ==
    ASSUME RInv, NEW j \in Jobs, NEW code \in {0, 1, 3, 4, 5, 6}, Stop(j, code),
           UNCHANGED <<now, inputs, output>>, GoodManifests', Grows,
           DOMAIN seen' = Jobs, \A k \in Jobs \ {j} : seen'[k] = seen[k],
           seen'[j] \subseteq DOMAIN disk',
           code = 0 => ~AsksForFiles(j),
           code \in {3, 4, 5, 6} => written[j] = {}
    PROVE  RInv'
  <1>1. Only(j)  BY DEF RInv, Shape, Only, Stop, Go, inputs, output
  <1>2. Shape'  BY DEF RInv, Shape, Stop, Go, inputs, output, Steps
  <1>3. pc'[j] = "done" /\ exit'[j] = code  BY DEF RInv, Shape, Stop, Go
  <1>4. JobInv(j)  BY DEF RInv
  <1>5. JobInv(j)'
    <2>1. /\ \A n : Target(j, n)' = Target(j, n)
      BY DEF Target, Root, inputs, output
    <2>2. Written(j)'  BY <1>3, <1>4, <2>1 DEF JobInv, Written, Grows, output
    <2>3. Unclaimed(j)'  BY <1>3 DEF Unclaimed
    <2>4. Gated(j)'  BY <1>3, <1>4 DEF JobInv, Gated, Reached, inputs, output
    <2>5. Honest(j)'  BY <1>3, <1>4 DEF JobInv, Honest, AsksForFiles, inputs, output
    <2>6. QED  BY <1>3, <1>4, <2>2, <2>3, <2>4, <2>5 DEF JobInv, RightCommand, Homes, inputs
  <1>6. QED  BY <1>1, <1>2, <1>5, Composed

LEMMA Stopping ==
    ASSUME RInv, NEW j \in Jobs, NEW code \in {0, 1, 3, 4, 5, 6}, Stop(j, code),
           UNCHANGED <<now, disk, inputs, output, seen>>,
           code = 0 => ~AsksForFiles(j),
           code \in {3, 4, 5, 6} => written[j] = {}
    PROVE  RInv'
  <1>1. GoodManifests' /\ Grows  BY SameDisk DEF RInv
  <1>2. DOMAIN seen = Jobs /\ seen[j] \subseteq DOMAIN disk
    BY DEF RInv, Shape, JobInv, Unclaimed
  <1>3. QED  BY <1>1, <1>2, StoppingWith

\* A job that ends before it has begun to write.
LEMMA Finishing ==
    ASSUME RInv, NEW j \in Jobs, pc[j] \notin {"write", "done"},
           Only(j), Shape', GoodManifests', Grows,
           pc'[j] = "done", exit'[j] = 0 => ~AsksForFiles(j)',
           written'[j] = written[j], home'[j] = home[j], seen'[j] = seen[j]
    PROVE  RInv'
  <1>1. JobInv(j)  BY DEF RInv
  <1>2. written'[j] = {}  BY <1>1 DEF JobInv, Written
  <1>3. JobInv(j)'
    BY <1>1, <1>2 DEF JobInv, RightCommand, Written, Unclaimed, Gated, Honest, Grows, Homes
  <1>4. QED  BY <1>3, Composed

\* A job that goes on to a step before the writing.
LEMMA Advancing ==
    ASSUME RInv, NEW j \in Jobs, pc[j] \notin {"write", "done"},
           Only(j), Shape', GoodManifests', Grows,
           pc'[j] \notin {"write", "done"}, exit'[j] = exit[j],
           written'[j] = written[j], home'[j] \in Homes,
           seen'[j] \subseteq DOMAIN disk', RightCommand(j)', Gated(j)',
           pc'[j] \in {"confirm", "check"} => (Path(Root(j), ReadmeFile) \in TargetPaths(j))'
    PROVE  RInv'
  <1>1. JobInv(j)  BY DEF RInv
  <1>2. written'[j] = {} /\ exit'[j] = -1  BY <1>1 DEF JobInv, Written, Honest
  <1>3. Written(j)' /\ Unclaimed(j)' /\ Honest(j)'
    BY <1>2 DEF Written, Unclaimed, Honest
  <1>4. JobInv(j)'  BY <1>3 DEF JobInv, Homes
  <1>5. QED  BY <1>4, Composed

LEMMA StartKeeps == ASSUME RInv, NEW j \in Jobs, Start(j) PROVE RInv'
  <1>1. PICK invocation \in Invocations :
            /\ args' = Keep(j, args, invocation)
            /\ Go(j, CASE invocation.command = "run" -> "preflight"
                       [] invocation.command = "analyze" -> "analyze"
                       [] invocation.command = "scaffold" -> "load")
    BY DEF Start
  <1>2. PICK step \in Steps :
            /\ Go(j, step)
            /\ \/ step = "preflight" /\ invocation.command = "run"
               \/ step = "analyze" /\ invocation.command = "analyze"
               \/ step = "load" /\ invocation.command = "scaffold"
    BY <1>1, InvocationAssumption DEF Steps
  <1>3. Only(j)  BY <1>1, <1>2 DEF RInv, Shape, Only, Start, Go, Keep, output
  <1>4. Shape'  BY <1>1, <1>2 DEF RInv, Shape, Start, Go, Keep, output
  <1>5. GoodManifests' /\ Grows  BY SameDisk DEF RInv, Start
  <1>6. /\ pc[j] = "idle" /\ pc'[j] = step /\ args'[j] = invocation /\ home'[j] = Cwd
        /\ seen'[j] = seen[j] /\ disk' = disk
        /\ exit'[j] = exit[j] /\ written'[j] = written[j]
    BY <1>1, <1>2 DEF RInv, Shape, Start, Go, Keep, output
  <1>7. RightCommand(j)'  BY <1>2, <1>6 DEF RightCommand
  <1>8. Gated(j)'  BY <1>2, <1>6 DEF RInv, JobInv, Written, Gated
  <1>9. home'[j] \in Homes /\ seen'[j] \subseteq DOMAIN disk'
    BY <1>6 DEF RInv, JobInv, Unclaimed, Homes
  <1>10. QED  BY <1>2, <1>3, <1>4, <1>5, <1>6, <1>7, <1>8, <1>9, Advancing

LEMMA PreflightKeeps ==
    ASSUME RInv, NEW j \in Jobs, PreflightPasses(j) \/ PreflightFails(j) PROVE RInv'
  <1>1. CASE PreflightPasses(j)
    <2>1. Only(j)  BY <1>1 DEF RInv, Shape, Only, PreflightPasses, Go, Keep, output
    <2>2. Shape'  BY <1>1 DEF RInv, Shape, PreflightPasses, Go, Keep, output, Steps
    <2>3. GoodManifests' /\ Grows  BY <1>1, SameDisk DEF RInv, PreflightPasses
    <2>4. /\ pc[j] = "preflight" /\ pc'[j] = "analyze" /\ home'[j] = RunDir(now)
          /\ args'[j] = args[j] /\ seen'[j] = seen[j] /\ disk' = disk
          /\ exit'[j] = exit[j] /\ written'[j] = written[j]
      BY <1>1 DEF RInv, Shape, PreflightPasses, Go, Keep, output
    <2>5. JobInv(j)  BY DEF RInv
    <2>6. RightCommand(j)'  BY <2>4, <2>5 DEF JobInv, RightCommand
    <2>7. Gated(j)'  BY <2>4, <2>5 DEF JobInv, Written, Gated
    <2>8. home'[j] \in Homes  BY <2>4 DEF RInv, Shape, Homes
    <2>9. seen'[j] \subseteq DOMAIN disk'  BY <2>4, <2>5 DEF JobInv, Unclaimed
    <2>10. QED  BY <2>1, <2>2, <2>3, <2>4, <2>6, <2>7, <2>8, <2>9, Advancing
  <1>2. CASE PreflightFails(j)
    <2>1. written[j] = {}  BY <1>2 DEF PreflightFails, RInv, JobInv, Written
    <2>2. QED  BY <1>2, <2>1, Stopping DEF PreflightFails
  <1>3. QED  BY <1>1, <1>2

\* The steps that put a report into memory, read or made.
LEMMA LoadingKeeps ==
    ASSUME RInv, NEW j \in Jobs,
           \/ AnalyzeFramework(j) \/ LoadFramework(j) \/ DiscoverUI(j) \/ LoadUI(j)
           \/ LoadSync(j) \/ LoadDiscovery(j) \/ LoadExtension(j)
    PROVE  RInv'
  <1> USE DEF AnalyzeFramework, LoadFramework, DiscoverUI, LoadUI, LoadSync,
              LoadDiscovery, LoadExtension
  <1>1. Only(j)  BY DEF RInv, Shape, Only, Go, Keep, output
  <1>2. Shape'  BY DEF RInv, Shape, Go, Keep, output, Steps
  <1>3. GoodManifests' /\ Grows
    <2>1. CASE UNCHANGED disk  BY <2>1, SameDisk DEF RInv
    <2>2. CASE \E path, content : Put(path, content) /\ path.file # ManifestFile
      BY <2>2, PutKeeps DEF RInv
    <2>3. QED  BY <2>1, <2>2, OtherNames
  <1>4. /\ args'[j] = args[j] /\ home'[j] = home[j] /\ seen'[j] = seen[j]
        /\ exit'[j] = exit[j] /\ written'[j] = written[j]
        /\ \/ pc[j] = "analyze" /\ pc'[j] = "discover"
           \/ pc[j] = "discover" /\ pc'[j] = "report"
           \/ pc[j] = "load" /\ pc'[j] = "load_ui"
           \/ pc[j] = "load_ui" /\ pc'[j] = "load_report"
           \/ pc[j] = "load_report" /\ pc'[j] = "preview"
    BY DEF RInv, Shape, Go, Keep, output
  <1>5. JobInv(j)  BY DEF RInv
  <1>6. RightCommand(j)'  BY <1>4, <1>5 DEF JobInv, RightCommand
  <1>7. Gated(j)'  BY <1>4, <1>5 DEF JobInv, Written, Gated
  <1>8. home'[j] \in Homes /\ seen'[j] \subseteq DOMAIN disk'
    BY <1>3, <1>4, <1>5 DEF JobInv, Unclaimed, Grows
  <1>9. QED  BY <1>1, <1>2, <1>3, <1>4, <1>6, <1>7, <1>8, Advancing

LEMMA InputFailsKeeps == ASSUME RInv, NEW j \in Jobs, InputFails(j) PROVE RInv'
  BY Stopping DEF InputFails

LEMMA AnalyzeKeeps == ASSUME RInv, NEW j \in Jobs, Analyze(j) PROVE RInv'
  <1> DEFINE result == BuildReport(analysis[j], discovery[j], args[j].url, args[j].planned)
  <1>1. /\ Put(Path(home[j], ExtensionReport), result)
        /\ report' = Keep(j, report, result)
    BY DEF Analyze
  <1>2. GoodManifests' /\ Grows  BY <1>1, OtherNames, PutKeeps DEF RInv
  <1>3. Only(j) /\ Shape'
    BY DEF RInv, Shape, Only, Analyze, Go, Stop, Keep, output, Steps
  <1>4. /\ args'[j] = args[j] /\ home'[j] = home[j] /\ seen'[j] = seen[j]
        /\ written'[j] = written[j] /\ pc[j] = "report"
        /\ analysis'[j] = analysis[j] /\ discovery'[j] = discovery[j]
        /\ report'[j] = result
    BY <1>1 DEF RInv, Shape, Analyze, Keep, output
  <1>5. JobInv(j)  BY DEF RInv
  <1>6. CASE args[j].command = "analyze"
    <2>1. pc'[j] = "done" /\ exit'[j] = 0  BY <1>6 DEF RInv, Shape, Analyze, Stop, Go
    <2>2. ~AsksForFiles(j)'  BY <1>4, <1>6 DEF AsksForFiles
    <2>3. QED  BY <1>2, <1>3, <1>4, <2>1, <2>2, Finishing
  <1>7. CASE args[j].command # "analyze"
    <2>1. pc'[j] = "quality" /\ exit'[j] = exit[j]  BY <1>7 DEF RInv, Shape, Analyze, Go
    <2>2. RightCommand(j)'  BY <1>4, <1>5, <1>7, <2>1 DEF JobInv, RightCommand
    <2>3. Gated(j)'  BY <1>4, <1>5, <2>1 DEF JobInv, Written, Gated
    <2>4. seen'[j] \subseteq DOMAIN disk'  BY <1>2, <1>4, <1>5 DEF JobInv, Unclaimed, Grows
    <2>5. home'[j] \in Homes  BY <1>4, <1>5 DEF JobInv
    <2>6. QED  BY <1>2, <1>3, <1>4, <2>1, <2>2, <2>3, <2>4, <2>5, Advancing
  <1>8. QED  BY <1>6, <1>7

LEMMA QualityGateKeeps == ASSUME RInv, NEW j \in Jobs, QualityGate(j) PROVE RInv'
  <1>1. JobInv(j) /\ pc[j] = "quality"  BY DEF RInv, QualityGate
  <1>2. written[j] = {} /\ args[j].command = "run"  BY <1>1 DEF JobInv, Written, RightCommand
  <1>3. CASE report[j].quality.level = "BLOCKED"
    BY <1>2, <1>3, Stopping DEF QualityGate
  <1>4. CASE report[j].quality.level # "BLOCKED" /\ ~args[j].scaffold
    <2>1. ~AsksForFiles(j)  BY <1>2, <1>4 DEF AsksForFiles
    <2>2. Stop(j, 0) /\ UNCHANGED <<now, disk, inputs, output, seen>>
      BY <1>4 DEF QualityGate
    <2>3. QED  BY <2>1, <2>2, Stopping
  <1>5. CASE report[j].quality.level # "BLOCKED" /\ args[j].scaffold
    <2>1. /\ Go(j, "git")
          /\ UNCHANGED <<now, disk, inputs, output, exit, seen>>
      BY <1>5 DEF QualityGate
    <2>2. Only(j) /\ Shape' /\ GoodManifests' /\ Grows /\ pc'[j] = "git"
      BY <2>1, SameDisk DEF RInv, Shape, Only, Go, inputs, output, Steps
    <2>3. report[j] = BuildReport(analysis[j], discovery[j], args[j].url, args[j].planned)
      BY <1>1 DEF JobInv, Gated
    <2>4. args[j].url => Reached(j)
      <3>1. BuildReport(analysis[j], discovery[j], args[j].url, args[j].planned).quality.level
              # "BLOCKED"
        BY <1>5, <2>3
      <3>2. /\ discovery[j] # <<>>
            /\ args[j].url => ~IsLogin(discovery[j][1])
        BY ONLY <3>1, NotBlocked
      <3>3. args[j].url = TRUE =>
              \/ ~MostlyLogins(discovery[j]) \/ ~NoElements(discovery[j])
              \/ report[j].summary.application # 0
        BY <2>3, <3>1, NotWorthless
      <3>4. QED  BY <3>2, <3>3 DEF Reached
    <2>5. Gated(j)'  BY <2>1, <2>2, <2>4 DEF Gated, Reached, inputs
    <2>6. RightCommand(j)'  BY <1>2, <2>1, <2>2 DEF RightCommand, inputs
    <2>7. home'[j] \in Homes /\ seen'[j] \subseteq DOMAIN disk'
      BY <1>1, <2>1 DEF JobInv, Unclaimed, inputs
    <2>8. QED  BY <1>1, <2>1, <2>2, <2>5, <2>6, <2>7, Advancing DEF output
  <1>6. QED  BY <1>3, <1>4, <1>5

\* A plan that has just been made has README.md among its targets.
LEMMA PlanMade ==
    ASSUME RInv, NEW j \in Jobs, BuildPlan(j), UNCHANGED <<args, home>>
    PROVE  /\ (Path(Root(j), ReadmeFile) \in TargetPaths(j))'
           /\ DOMAIN plan' = Jobs
           /\ \A k \in Jobs \ {j} : plan'[k] = plan[k]
  <1>1. plan' = Keep(j, plan, ScaffoldPlan(analysis[j], discovery[j], report[j], args[j].target))
    BY DEF BuildPlan
  <1>2. plan'[j] = ScaffoldPlan(analysis[j], discovery[j], report[j], args[j].target)
    BY <1>1 DEF Keep, RInv, Shape
  <1>3. PICK n \in DOMAIN plan'[j].files : plan'[j].files[n] = Readme
    BY <1>2, PlanHasReadme
  <1>4. Target(j, n)' = Path(Root(j), ReadmeFile)'
    <2>1. Readme.path = <<".", "README.md">>  BY DEF Readme
    <2>2. plan'[j].files[n].path = <<".", "README.md">>  BY <1>3, <2>1
    <2>3. <<plan'[j].files[n].path[1], plan'[j].files[n].path[2]>> = ReadmeFile
      BY <2>2 DEF ReadmeFile
    <2>4. QED  BY <2>3 DEF Target
  <1>5. QED  BY <1>1, <1>3, <1>4 DEF TargetPaths, Keep, RInv, Shape

LEMMA GitGateKeeps == ASSUME RInv, NEW j \in Jobs, GitGate(j) PROVE RInv'
  <1>1. JobInv(j) /\ pc[j] = "git"  BY DEF RInv, GitGate
  <1>2. written[j] = {} /\ args[j].command = "run"  BY <1>1 DEF JobInv, Written, RightCommand
  <1>3. CASE Stop(j, 5) /\ UNCHANGED plan
    BY <1>2, <1>3, Stopping DEF GitGate, output
  <1>4. CASE /\ BuildPlan(j)
             /\ Go(j, IF args[j].dryRun THEN "check" ELSE "confirm")
             /\ UNCHANGED exit
    <2>1. PICK step \in {"check", "confirm"} : Go(j, step)  BY <1>4
    <2>2. UNCHANGED <<now, disk, inputs, written, seen, exit>>  BY <1>4 DEF GitGate
    <2>3. /\ (Path(Root(j), ReadmeFile) \in TargetPaths(j))'
          /\ DOMAIN plan' = Jobs
          /\ \A k \in Jobs \ {j} : plan'[k] = plan[k]
      BY <1>4, <2>2, PlanMade DEF inputs
    <2>4. Only(j) /\ Shape' /\ GoodManifests' /\ Grows /\ pc'[j] = step
      BY <2>1, <2>2, <2>3, SameDisk DEF RInv, Shape, Only, Go, inputs, Steps
    <2>5. Gated(j)'  BY <1>1, <2>2, <2>4 DEF JobInv, Gated, Reached, inputs
    <2>6. RightCommand(j)'  BY <1>2, <2>2, <2>4 DEF RightCommand, inputs
    <2>7. home'[j] \in Homes /\ seen'[j] \subseteq DOMAIN disk'
      BY <1>1, <2>2 DEF JobInv, Unclaimed, inputs
    <2>8. QED  BY <1>1, <2>1, <2>2, <2>3, <2>4, <2>5, <2>6, <2>7, Advancing
  <1>5. QED  BY <1>3, <1>4 DEF GitGate

LEMMA AnswerKeeps ==
    ASSUME RInv, NEW j \in Jobs, Confirmed(j) \/ Declined(j) PROVE RInv'
  <1>1. JobInv(j) /\ pc[j] = "confirm"  BY DEF RInv, Confirmed, Declined
  <1>2. written[j] = {}  BY <1>1 DEF JobInv, Written
  <1>3. CASE Declined(j)  BY <1>2, <1>3, Stopping DEF Declined
  <1>4. CASE Confirmed(j)
    <2>1. Go(j, "check") /\ UNCHANGED <<now, disk, inputs, output, exit, seen>>
      BY <1>4 DEF Confirmed
    <2>2. Only(j) /\ Shape' /\ GoodManifests' /\ Grows /\ pc'[j] = "check"
      BY <2>1, SameDisk DEF RInv, Shape, Only, Go, inputs, output, Steps
    <2>3. (Path(Root(j), ReadmeFile) \in TargetPaths(j))'
      BY <1>1, <2>1 DEF JobInv, Unclaimed, TargetPaths, Target, Root, inputs, output
    <2>4. Gated(j)' /\ RightCommand(j)'
      BY <1>1, <2>1, <2>2 DEF JobInv, Gated, Reached, RightCommand, inputs, output
    <2>5. home'[j] \in Homes /\ seen'[j] \subseteq DOMAIN disk'
      BY <1>1, <2>1 DEF JobInv, Unclaimed, inputs
    <2>6. QED  BY <1>1, <2>1, <2>2, <2>3, <2>4, <2>5, Advancing DEF output
  <1>5. QED  BY <1>3, <1>4

LEMMA PreviewKeeps == ASSUME RInv, NEW j \in Jobs, Preview(j) PROVE RInv'
  <1>1. JobInv(j) /\ pc[j] = "preview"  BY DEF RInv, Preview
  <1>2. args[j].command = "scaffold"  BY <1>1 DEF JobInv, RightCommand
  <1>3. UNCHANGED <<now, disk, inputs, written, seen>> /\ BuildPlan(j)  BY DEF Preview
  <1>4. /\ (Path(Root(j), ReadmeFile) \in TargetPaths(j))'
        /\ DOMAIN plan' = Jobs
        /\ \A k \in Jobs \ {j} : plan'[k] = plan[k]
    BY <1>3, PlanMade DEF inputs
  <1>5. GoodManifests' /\ Grows  BY <1>3, SameDisk DEF RInv
  <1>6. CASE args[j].dryRun \/ ~args[j].approve
    <2>1. Stop(j, 0)  BY <1>6 DEF Preview
    <2>2. Only(j) /\ Shape' /\ pc'[j] = "done"
      BY <1>3, <1>4, <2>1 DEF RInv, Shape, Only, Stop, Go, inputs, Steps
    <2>3. ~AsksForFiles(j)'  BY <1>2, <1>3, <1>6 DEF AsksForFiles, inputs
    <2>4. QED  BY <1>1, <1>3, <1>5, <2>2, <2>3, Finishing DEF inputs
  <1>7. CASE ~(args[j].dryRun \/ ~args[j].approve)
    <2>1. Go(j, "check") /\ UNCHANGED exit  BY <1>7 DEF Preview
    <2>2. Only(j) /\ Shape' /\ pc'[j] = "check"
      BY <1>3, <1>4, <2>1 DEF RInv, Shape, Only, Go, inputs, Steps
    <2>3. Gated(j)' /\ RightCommand(j)'
      BY <1>1, <1>2, <1>3, <2>2 DEF JobInv, Written, Gated, RightCommand, inputs
    <2>4. home'[j] \in Homes /\ seen'[j] \subseteq DOMAIN disk'
      BY <1>1, <1>3 DEF JobInv, Unclaimed, inputs
    <2>5. QED  BY <1>1, <1>3, <1>4, <1>5, <2>1, <2>2, <2>3, <2>4, Advancing
  <1>8. QED  BY <1>6, <1>7

\* Where the options and the plan stay, so do the targets.
LEMMA SameTargets ==
    ASSUME NEW j, UNCHANGED <<args, home, plan>>
    PROVE  /\ \A n : Target(j, n)' = Target(j, n)
           /\ TargetPaths(j)' = TargetPaths(j)
           /\ ManifestPath(j)' = ManifestPath(j)
           /\ Root(j)' = Root(j)
  <1>1. Root(j)' = Root(j)  BY DEF Root
  <1>2. QED  BY <1>1 DEF Target, TargetPaths, ManifestPath

\* A directory whose targets are all free has no manifest: it would list
\* README.md, which would be there.
LEMMA FreeRoot ==
    ASSUME RInv, NEW j \in Jobs, pc[j] = "check",
           \A path \in TargetPaths(j) : ~Exists(path)
    PROVE  ManifestPath(j) \notin DOMAIN disk
  <1>1. Path(Root(j), ReadmeFile) \in TargetPaths(j)
    BY DEF RInv, JobInv, Unclaimed
  <1>2. Path(Root(j), ReadmeFile) \notin DOMAIN disk  BY <1>1 DEF Exists
  <1>3. SUFFICES ASSUME ManifestPath(j) \in DOMAIN disk PROVE FALSE  OBVIOUS
  <1>4. ManifestPath(j).file = ManifestFile /\ ManifestPath(j).dir = Root(j)
    BY DEF ManifestPath, Path
  <1>5. Path(Root(j), ReadmeFile) \in DOMAIN disk
    BY <1>3, <1>4 DEF RInv, GoodManifests
  <1>6. QED  BY <1>2, <1>5

LEMMA CheckKeeps == ASSUME RInv, NEW j \in Jobs, CheckTargets(j) PROVE RInv'
  <1>1. JobInv(j) /\ pc[j] = "check"  BY DEF RInv, CheckTargets
  <1>2. /\ UNCHANGED <<now, disk, inputs, output>>
        /\ DOMAIN seen' = Jobs /\ \A k \in Jobs \ {j} : seen'[k] = seen[k]
        /\ seen'[j] = DOMAIN disk
    BY DEF CheckTargets, Keep, RInv, Shape
  <1>3. GoodManifests' /\ Grows  BY <1>2, SameDisk DEF RInv
  <1>4. CASE Refused(j)
    <2>1. Stop(j, 1)  BY <1>4 DEF CheckTargets
    <2>2. QED  BY <1>2, <1>3, <2>1, StoppingWith
  <1>5. CASE ~Refused(j) /\ args[j].dryRun
    <2>1. Stop(j, 0) /\ ~AsksForFiles(j)  BY <1>5 DEF CheckTargets, AsksForFiles
    <2>2. QED  BY <1>2, <1>3, <2>1, StoppingWith
  <1>6. CASE ~Refused(j) /\ ~args[j].dryRun
    <2>1. Go(j, "write") /\ UNCHANGED exit  BY <1>6 DEF CheckTargets
    <2>2. Only(j) /\ Shape' /\ pc'[j] = "write"
      BY <1>2, <2>1 DEF RInv, Shape, Only, Go, inputs, output, Steps
    <2>3. /\ \A n : Target(j, n)' = Target(j, n)
          /\ TargetPaths(j)' = TargetPaths(j)
          /\ ManifestPath(j)' = ManifestPath(j)
          /\ Root(j)' = Root(j)
      BY <1>2, SameTargets DEF inputs, output
    <2>4. Written(j)'  BY <1>1, <1>2, <2>3 DEF JobInv, Written, output
    <2>5. Unclaimed(j)'
      <3>1. ~args[j].overwrite => /\ TargetPaths(j) \cap DOMAIN disk = {}
                                  /\ ManifestPath(j) \notin DOMAIN disk
        BY <1>1, <1>6, FreeRoot DEF Refused, Exists
      <3>2. Path(Root(j), ReadmeFile) \in TargetPaths(j)
        BY <1>1 DEF JobInv, Unclaimed
      <3>3. QED  BY <1>2, <2>2, <2>3, <3>1, <3>2 DEF Unclaimed, inputs
    <2>6. Gated(j)' /\ RightCommand(j)'
      BY <1>1, <1>2, <2>2 DEF JobInv, Gated, Reached, RightCommand, inputs, output
    <2>7. Honest(j)'  BY <1>1, <2>1 DEF JobInv, Honest
    <2>8. JobInv(j)'
      BY <1>1, <1>2, <2>4, <2>5, <2>6, <2>7 DEF JobInv, Homes, inputs
    <2>9. QED  BY <1>3, <2>2, <2>8, Composed
  <1>7. QED  BY <1>4, <1>5, <1>6

LEMMA WriteFileKeeps == ASSUME RInv, NEW j \in Jobs, WriteFile(j) PROVE RInv'
  <1>1. JobInv(j) /\ pc[j] = "write"  BY DEF RInv, WriteFile
  <1>2. PICK n \in Pending(j) :
            /\ Put(Target(j, n), plan[j].files[n])
            /\ written' = [written EXCEPT ![j] = @ \cup {n}]
    BY DEF WriteFile
  <1>3. UNCHANGED <<now, pc, inputs, plan, exit, seen>>  BY DEF WriteFile
  <1>4. GoodManifests' /\ Grows /\ Target(j, n) \in DOMAIN disk'
    BY <1>2, OtherNames, PutKeeps DEF RInv
  <1>5. Only(j) /\ Shape' /\ written'[j] = written[j] \cup {n}
    BY <1>2, <1>3 DEF RInv, Shape, Only, inputs
  <1>6. /\ \A m : Target(j, m)' = Target(j, m)
        /\ TargetPaths(j)' = TargetPaths(j)
        /\ ManifestPath(j)' = ManifestPath(j)
        /\ Root(j)' = Root(j)
    BY <1>3, SameTargets DEF inputs
  <1>7. Written(j)'
    BY <1>1, <1>2, <1>3, <1>4, <1>5, <1>6 DEF JobInv, Written, Pending, Grows
  <1>8. Unclaimed(j)'  BY <1>1, <1>3, <1>4, <1>6 DEF JobInv, Unclaimed, Grows, inputs
  <1>9. Gated(j)' /\ RightCommand(j)'
    BY <1>1, <1>3 DEF JobInv, Gated, Reached, RightCommand, inputs
  <1>10. Honest(j)'  BY <1>1, <1>3 DEF JobInv, Honest
  <1>11. JobInv(j)'
    BY <1>1, <1>3, <1>7, <1>8, <1>9, <1>10 DEF JobInv, Homes, inputs
  <1>12. QED  BY <1>4, <1>5, <1>11, Composed

\* Nor does a manifest that lists what is there, where README.md is.
LEMMA ManifestPut ==
    ASSUME GoodManifests, NEW j, NEW content, Put(ManifestPath(j), content),
           Path(Root(j), ReadmeFile) \in DOMAIN disk,
           \A file \in content.files : Path(Root(j), file) \in DOMAIN disk
    PROVE  GoodManifests' /\ Grows
  <1>1. /\ DOMAIN disk' = DOMAIN disk \cup {ManifestPath(j)}
        /\ disk'[ManifestPath(j)] = content
        /\ \A q \in DOMAIN disk : q # ManifestPath(j) => disk'[q] = disk[q]
    BY PutDomain
  <1>2. Grows  BY <1>1 DEF Grows
  <1>3. ManifestPath(j).dir = Root(j)  BY DEF ManifestPath, Path
  <1>4. ASSUME NEW path \in DOMAIN disk', path.file = ManifestFile
        PROVE  /\ Path(path.dir, ReadmeFile) \in DOMAIN disk'
               /\ \A file \in disk'[path].files : Path(path.dir, file) \in DOMAIN disk'
    <2>1. CASE path = ManifestPath(j)  BY <1>1, <1>3, <2>1
    <2>2. CASE path # ManifestPath(j)  BY <1>1, <1>4, <2>2 DEF GoodManifests
    <2>3. QED  BY <2>1, <2>2
  <1>5. QED  BY <1>2, <1>4 DEF GoodManifests, ReadmeFile, ManifestFile, Path

LEMMA SaveManifestKeeps == ASSUME RInv, NEW j \in Jobs, SaveManifest(j) PROVE RInv'
  <1>1. JobInv(j) /\ pc[j] = "write" /\ Pending(j) = {}  BY DEF RInv, SaveManifest
  <1>2. Put(ManifestPath(j), Manifest(j))  BY DEF SaveManifest
  <1>3. Stop(j, 0) /\ UNCHANGED <<now, inputs, output, seen>>  BY DEF SaveManifest
  <1>4. /\ DOMAIN disk' = DOMAIN disk \cup {ManifestPath(j)}
        /\ disk'[ManifestPath(j)] = Manifest(j)
        /\ \A q \in DOMAIN disk : q # ManifestPath(j) => disk'[q] = disk[q]
    BY <1>2, PutDomain
  <1>5. TargetPaths(j) \subseteq DOMAIN disk
    BY <1>1 DEF JobInv, Written, Pending, TargetPaths
  <1>6. /\ Path(Root(j), ReadmeFile) \in DOMAIN disk
        /\ \A file \in Manifest(j).files : Path(Root(j), file) \in DOMAIN disk
    <2>1. Manifest(j).files = {path.file : path \in TargetPaths(j)}  BY DEF Manifest
    <2>2. Path(Root(j), ReadmeFile) \in TargetPaths(j)  BY <1>1 DEF JobInv, Unclaimed
    <2>3. \A path \in TargetPaths(j) : path = Path(Root(j), path.file)
      BY DEF TargetPaths, Target, Path
    <2>4. QED  BY <1>5, <2>1, <2>2, <2>3
  <1>7. GoodManifests' /\ Grows
    BY <1>2, <1>6, ManifestPut DEF RInv
  <1>8. Only(j) /\ Shape' /\ pc'[j] = "done" /\ exit'[j] = 0
    BY <1>3 DEF RInv, Shape, Only, Stop, Go, inputs, output, Steps
  <1>9. /\ \A m : Target(j, m)' = Target(j, m)
        /\ TargetPaths(j)' = TargetPaths(j)
        /\ ManifestPath(j)' = ManifestPath(j)
        /\ Root(j)' = Root(j)
    BY <1>3, SameTargets DEF inputs, output
  <1>10. Written(j)'  BY <1>1, <1>3, <1>7, <1>8, <1>9 DEF JobInv, Written, Grows, output
  <1>11. Unclaimed(j)'  BY <1>1, <1>3, <1>7, <1>8 DEF JobInv, Unclaimed, Grows
  <1>12. Gated(j)' /\ RightCommand(j)'
    BY <1>1, <1>3, <1>8 DEF JobInv, Gated, Reached, RightCommand, inputs, output
  <1>13. Honest(j)'  BY <1>4, <1>5, <1>8, <1>9 DEF Honest
  <1>14. JobInv(j)'
    BY <1>1, <1>3, <1>10, <1>11, <1>12, <1>13 DEF JobInv, Homes, inputs
  <1>15. QED  BY <1>7, <1>8, <1>14, Composed

\* Once all planned files are written README.md is one of them.
LEMMA ReadmeIsThere ==
    ASSUME RInv, NEW j \in Jobs, pc[j] = "write", Pending(j) = {}
    PROVE  Path(Root(j), ReadmeFile) \in DOMAIN disk
  <1>1. JobInv(j)  BY DEF RInv
  <1>2. TargetPaths(j) \subseteq DOMAIN disk
    BY <1>1 DEF JobInv, Written, Pending, TargetPaths
  <1>3. QED  BY <1>1, <1>2 DEF JobInv, Unclaimed

LEMMA WriteFailsKeeps == ASSUME RInv, NEW j \in Jobs, WriteFails(j) PROVE RInv'
  <1>1. pc[j] = "write" /\ Stop(j, 1) /\ UNCHANGED <<now, inputs, output, seen>>
    BY DEF WriteFails
  <1>2. GoodManifests' /\ Grows
    <2>1. CASE UNCHANGED disk  BY <2>1, SameDisk DEF RInv
    <2>2. CASE \E n \in Pending(j) : First(j, n) /\ Put(Target(j, n), Torn)
      BY <2>2, OtherNames, PutKeeps DEF RInv
    <2>3. CASE Pending(j) = {} /\ Put(ManifestPath(j), Torn)
      <3>1. Torn.files = {}  BY DEF Torn
      <3>2. Path(Root(j), ReadmeFile) \in DOMAIN disk  BY <1>1, <2>3, ReadmeIsThere
      <3>3. QED  BY <2>3, <3>1, <3>2, ManifestPut DEF RInv
    <2>4. QED  BY <2>1, <2>2, <2>3 DEF WriteFails
  <1>3. DOMAIN seen = Jobs /\ seen[j] \subseteq DOMAIN disk
    BY DEF RInv, Shape, JobInv, Unclaimed
  <1>4. QED  BY <1>1, <1>2, <1>3, StoppingWith DEF Grows

\* What the customer saves is no manifest, and no job changes.
LEMMA CustomerKeeps == ASSUME RInv, CustomerSaves PROVE RInv'
  <1>1. UNCHANGED <<now, pc, inputs, output, exit, seen>>  BY DEF CustomerSaves
  <1>2. PICK path \in CustomerPaths : Put(path, [kind |-> "customer", files |-> {}])
    BY DEF CustomerSaves
  <1>3. GoodManifests' /\ Grows
    BY <1>2, CustomerAssumption, PutKeeps DEF RInv
  <1>4. Shape'  BY <1>1 DEF RInv, Shape, inputs, output
  <1>5. ASSUME NEW j \in Jobs PROVE JobInv(j)'
    <2>1. JobInv(j)  BY DEF RInv
    <2>2. /\ \A n : Target(j, n)' = Target(j, n)
          /\ TargetPaths(j)' = TargetPaths(j)
          /\ ManifestPath(j)' = ManifestPath(j)
          /\ Root(j)' = Root(j)
      BY <1>1, SameTargets DEF inputs, output
    <2>3. Written(j)' /\ Unclaimed(j)'
      BY <1>1, <1>3, <2>1, <2>2 DEF JobInv, Written, Unclaimed, Grows, inputs, output
    <2>4. Gated(j)' /\ RightCommand(j)'
      BY <1>1, <2>1 DEF JobInv, Gated, Reached, RightCommand, inputs, output
    <2>5. Honest(j)'
      BY <1>1, <1>3, <2>1, <2>2 DEF JobInv, Honest, AsksForFiles, Grows, inputs, output
    <2>6. QED  BY <1>1, <2>1, <2>3, <2>4, <2>5 DEF JobInv, Homes, inputs
  <1>6. QED  BY <1>3, <1>4, <1>5 DEF RInv

----------------------------------------------------------------------------

LEMMA Starts == Init => RInv
  <1> SUFFICES ASSUME Init PROVE RInv  OBVIOUS
  <1>1. Shape  BY BoundAssumption DEF Init, Shape, Steps
  <1>2. GoodManifests  BY LeftoverAssumption DEF Init, GoodManifests, Path
  <1>3. ASSUME NEW j \in Jobs PROVE JobInv(j)
    <2>1. /\ home[j] = NoHome /\ written[j] = {} /\ seen[j] = {} /\ pc[j] = "idle"
          /\ exit[j] = -1
      BY DEF Init
    <2>2. QED
      BY <2>1 DEF JobInv, Homes, RightCommand, Written, Unclaimed, Gated, Honest
  <1>4. QED  BY <1>1, <1>2, <1>3 DEF RInv

LEMMA Steady == ASSUME RInv, [Next]_vars PROVE RInv'
  <1>1. CASE UNCHANGED <<disk, pc, inputs, output, exit, seen>> /\ now' \in 0 .. MaxTime
    <2>1. Shape' /\ GoodManifests'
      BY <1>1 DEF RInv, Shape, GoodManifests, inputs, output
    <2>2. ASSUME NEW j \in Jobs PROVE JobInv(j)'
      <3>1. JobInv(j)  BY DEF RInv
      <3>2. /\ \A n : Target(j, n)' = Target(j, n)
            /\ TargetPaths(j)' = TargetPaths(j)
            /\ ManifestPath(j)' = ManifestPath(j)
            /\ Root(j)' = Root(j)
        BY <1>1, SameTargets DEF inputs, output
      <3>3. Written(j)' /\ Unclaimed(j)'
        BY <1>1, <3>1, <3>2 DEF JobInv, Written, Unclaimed, inputs, output
      <3>4. Gated(j)' /\ RightCommand(j)'
        BY <1>1, <3>1 DEF JobInv, Gated, Reached, RightCommand, inputs, output
      <3>5. Honest(j)'
        BY <1>1, <3>1, <3>2 DEF JobInv, Honest, AsksForFiles, inputs, output
      <3>6. QED  BY <1>1, <3>1, <3>3, <3>4, <3>5 DEF JobInv, Homes, inputs
    <2>3. QED  BY <2>1, <2>2 DEF RInv
  <1>2. CASE Tick
    <2>1. now' \in 0 .. MaxTime
      BY <1>2, BoundAssumption DEF Tick, RInv, Shape
    <2>2. QED  BY <1>1, <1>2, <2>1 DEF Tick
  <1>3. CASE UNCHANGED vars  BY <1>1, <1>3 DEF vars, RInv, Shape
  <1>4. ASSUME NEW j \in Jobs, JobStep(j) PROVE RInv'
    BY <1>4, StartKeeps, PreflightKeeps, LoadingKeeps, InputFailsKeeps, AnalyzeKeeps,
       QualityGateKeeps, GitGateKeeps, AnswerKeeps, PreviewKeeps, CheckKeeps,
       WriteFileKeeps, WriteFailsKeeps, SaveManifestKeeps
    DEF JobStep
  <1>5. QED  BY <1>2, <1>3, <1>4, CustomerKeeps DEF Next

\* The invariant from which the theorems follow.
THEOREM Invariance == Spec => []RInv
  <1>1. QED  BY Starts, Steady, PTL DEF Spec

\* Every variable holds what its comment says, for any number of commands.
THEOREM TypeCorrect == Spec => []TypeOK
  <1>1. RInv => TypeOK
    BY DEF RInv, Shape, JobInv, Homes, Written, Unclaimed, TypeOK
  <1>2. QED  BY <1>1, Invariance, PTL

\* write_scaffold_plan saves the manifest last, and no command takes away a
\* file: what a manifest lists is there whoever was killed when.
THEOREM ManifestIsCompleteHolds == Spec => []ManifestIsComplete
  <1>1. RInv => ManifestIsComplete  BY DEF RInv, GoodManifests, ManifestIsComplete
  <1>2. QED  BY <1>1, Invariance, PTL

\* Exit code 0 to one who asked for files means the files; the code of a gate
\* means none.
THEOREM ExitCodeIsHonestHolds == Spec => []ExitCodeIsHonest
  <1>1. RInv => ExitCodeIsHonest  BY DEF RInv, JobInv, Honest, ExitCodeIsHonest
  <1>2. QED  BY <1>1, Invariance, PTL

\* The gate of run: no code from an empty discovery or one that begins at a
\* login page, although discovery and code are four steps apart.
THEOREM EntryIsTheApplicationHolds == Spec => []EntryIsTheApplication
  <1>1. RInv => EntryIsTheApplication
    BY DEF RInv, JobInv, Gated, Reached, EntryIsTheApplication, HasCode
  <1>2. QED  BY <1>1, Invariance, PTL

\* And none from a discovery that is mostly login pages, without an element and
\* without a call of the application: the penalties together close the gate.
THEOREM ScaffoldIsEarnedHolds == Spec => []ScaffoldIsEarned
  <1>1. RInv => ScaffoldIsEarned
    BY DEF RInv, JobInv, Gated, Reached, ScaffoldIsEarned, EntryIsTheApplication, HasCode
  <1>2. QED  BY <1>1, Invariance, PTL

\* Without --overwrite every file of the scaffold directory that was there when
\* the targets were looked at survives the writing and its failures, the
\* manifest with them, although only the planned files are looked at.
THEOREM CustomerFilesSurviveHolds == Spec => CustomerFilesSurvive
  <1> DEFINE Survives == \A j \in Jobs : \A path \in seen[j] :
          (path.dir = Root(j) /\ pc[j] = "write" /\ ~args[j].overwrite
             /\ (written'[j] # written[j] \/ exit'[j] # exit[j]))
          => disk'[path] = disk[path]
  <1>1. ASSUME RInv, Next PROVE Survives
    <2>1. SUFFICES ASSUME NEW j \in Jobs, NEW path \in seen[j],
                          pc[j] = "write", ~args[j].overwrite,
                          written'[j] # written[j] \/ exit'[j] # exit[j]
                   PROVE  disk'[path] = disk[path]
      OBVIOUS
    <2>2. JobInv(j)  BY <1>1 DEF RInv
    <2>3. /\ path \in DOMAIN disk
          /\ path \notin TargetPaths(j)
          /\ path # ManifestPath(j)
      BY <2>1, <2>2 DEF JobInv, Unclaimed
    <2>4. \A n \in Pending(j) : Target(j, n) # path
      BY <2>3 DEF Pending, TargetPaths
    <2>5. WriteFile(j) \/ WriteFails(j) \/ SaveManifest(j) \/ UNCHANGED disk
      <3>1. JobStep(j)
        <4>1. ASSUME NEW k \in Jobs, JobStep(k), k # j PROVE FALSE
          BY <1>1, <2>1, <4>1
          DEF JobStep, Start, PreflightPasses, PreflightFails, AnalyzeFramework,
              LoadFramework, DiscoverUI, LoadUI, InputFails, Analyze, QualityGate, GitGate,
              Confirmed, Declined, LoadSync, LoadDiscovery, LoadExtension, Preview,
              CheckTargets, WriteFile, WriteFails, SaveManifest, Stop, output, RInv, Shape
        <4>2. ~Tick /\ ~CustomerSaves  BY <2>1 DEF Tick, CustomerSaves, output
        <4>3. QED  BY <1>1, <4>1, <4>2 DEF Next
      <3>2. QED
        BY <2>1, <3>1
        DEF JobStep, Start, PreflightPasses, PreflightFails, AnalyzeFramework,
            LoadFramework, DiscoverUI, LoadUI, InputFails, Analyze, QualityGate, GitGate,
            Confirmed, Declined, LoadSync, LoadDiscovery, LoadExtension, Preview,
            CheckTargets
    <2>6. CASE WriteFile(j)
      <3>1. PICK n \in Pending(j) : Put(Target(j, n), plan[j].files[n])
        BY <2>6 DEF WriteFile
      <3>2. \A q \in DOMAIN disk : q # Target(j, n) => disk'[q] = disk[q]
        BY <3>1, PutDomain
      <3>3. Target(j, n) # path  BY <2>4
      <3>4. QED  BY <2>3, <3>2, <3>3
    <2>7. CASE SaveManifest(j)
      <3>1. Put(ManifestPath(j), Manifest(j))  BY <2>7 DEF SaveManifest
      <3>2. \A q \in DOMAIN disk : q # ManifestPath(j) => disk'[q] = disk[q]
        BY <3>1, PutDomain
      <3>3. QED  BY <2>3, <3>2
    <2>8. CASE WriteFails(j)
      <3>1. PICK q : q # path /\ (UNCHANGED disk \/ Put(q, Torn))
        <4>1. ManifestPath(j) # path  BY <2>3
        <4>2. QED  BY <2>4, <2>8, <4>1 DEF WriteFails
      <3>2. QED  BY <2>3, <3>1, PutDomain
    <2>9. QED  BY <2>5, <2>6, <2>7, <2>8
  <1>2. ASSUME UNCHANGED vars PROVE Survives
    BY <1>2 DEF vars, output
  <1>3. QED
    BY <1>1, <1>2, Invariance, PTL DEF Spec, CustomerFilesSurvive
-----------------------------------------------------------------------------
(* From the calls of the pages to the rows of the report. *)

AppClasses == {"APPLICATION_API", "AUTHENTICATION"}

\* Deduplicated calls are calls, each with its own classification.
LEMMA ClassifiedCalls ==
  ASSUME NEW S, NEW calls \in Seq(S), NEW host
  PROVE  /\ Classified(calls, host) \in Seq(ToSet(Classified(calls, host)))
         /\ \A entry \in ToSet(Classified(calls, host)) :
                entry.call \in ToSet(calls) /\ entry.class = ClassOf(entry.call, host)
  <1> DEFINE set == {i \in DOMAIN calls :
                        \A k \in 1 .. (i - 1) : DedupKey(calls[k]) # DedupKey(calls[i])}
             positions == [i \in 1 .. Len(calls) |-> i]
             firsts == Among(positions, set)
             count(call) == Cardinality({k \in DOMAIN calls : DedupKey(calls[k]) = DedupKey(call)})
             entries == [n \in 1 .. Len(firsts) |->
                            [call |-> calls[firsts[n]],
                             class |-> ClassOf(calls[firsts[n]], host),
                             count |-> count(calls[firsts[n]])]]
  <1>1. Classified(calls, host) = entries
    BY Zenon DEF Classified
  <1>2. positions \in Seq(Nat) /\ ToSet(positions) \subseteq DOMAIN calls
    BY DEF ToSet
  <1> HIDE DEF positions, set
  <1>3. firsts \in Seq(Nat) /\ ToSet(firsts) \subseteq DOMAIN calls
    BY <1>2, AmongElements
  <1> HIDE DEF firsts, count
  <1>4. ASSUME NEW n \in 1 .. Len(firsts)
        PROVE  /\ entries[n].call \in ToSet(calls)
               /\ entries[n].class = ClassOf(entries[n].call, host)
    <2>1. firsts[n] \in DOMAIN calls
      BY <1>3 DEF ToSet
    <2>2. entries[n].call = calls[firsts[n]] /\ entries[n].class = ClassOf(calls[firsts[n]], host)
      OBVIOUS
    <2> HIDE DEF entries
    <2>3. calls[firsts[n]] \in ToSet(calls)
      BY <2>1, Zenon DEF ToSet
    <2> QED
      BY <2>2, <2>3
  <1>5. entries = [n \in 1 .. Len(firsts) |-> entries[n]] /\ Len(firsts) \in Nat
    BY <1>3
  <1>6. DOMAIN entries = 1 .. Len(firsts)
    OBVIOUS
  <1> HIDE DEF entries
  <1>8. /\ entries \in Seq(ToSet(entries))
        /\ \A e \in ToSet(entries) : \E n \in 1 .. Len(firsts) : e = entries[n]
    <2> DEFINE N == Len(firsts)
    <2>1. N \in Nat /\ entries = [n \in 1 .. N |-> entries[n]]
      BY <1>5
    <2> HIDE DEF N
    <2>3. entries \in [1 .. N -> ToSet(entries)]
      <3>1. DOMAIN entries = 1 .. N
        BY <2>1
      <3>2. \A n \in 1 .. N : entries[n] \in ToSet(entries)
        BY <3>1, Zenon DEF ToSet
      <3> QED
        BY <2>1, <3>2
    <2>4. N \in Nat
      BY <2>1
    <2>2. /\ entries \in Seq(ToSet(entries))
          /\ \A e \in ToSet(entries) : \E n \in 1 .. N : e = entries[n]
      <3>1. entries \in Seq(ToSet(entries)) /\ DOMAIN entries = 1 .. N
        BY <2>3, <2>4
      <3>2. \A e \in ToSet(entries) : \E n \in 1 .. N : e = entries[n]
        BY <3>1, Zenon DEF ToSet
      <3> QED
        BY <3>1, <3>2
    <2> QED
      BY <2>2 DEF N
  <1> QED
    BY <1>1, <1>4, <1>8

\* The kept calls are calls of the application, judged by the host.
LEMMA KeptAreOfTheApplication ==
  ASSUME NEW S, NEW calls \in Seq(S), NEW host
  PROVE  \A call \in ToSet(KeptCalls(Classified(calls, host))) :
            call \in ToSet(calls) /\ ClassOf(call, host) \in AppClasses
  <1> DEFINE classified == Classified(calls, host)
             set == {entry \in ToSet(classified) : entry.class \in AppClasses}
             kept == Among(classified, set)
             found == [n \in 1 .. Len(kept) |-> kept[n].call]
  <1>1. KeptCalls(classified) = found
    BY Zenon DEF KeptCalls, AppClasses
  <1>2. /\ classified \in Seq(ToSet(classified))
        /\ \A entry \in ToSet(classified) :
              entry.call \in ToSet(calls) /\ entry.class = ClassOf(entry.call, host)
    BY ClassifiedCalls
  <1> HIDE DEF classified
  <1>3. \A entry \in set : entry \in ToSet(classified) /\ entry.class \in AppClasses
    OBVIOUS
  <1> HIDE DEF set
  <1>4. kept \in Seq(ToSet(classified)) /\ ToSet(kept) \subseteq set
    BY <1>2, AmongElements
  <1> HIDE DEF kept
  <1>5. ASSUME NEW n \in 1 .. Len(kept)
        PROVE  kept[n].call \in ToSet(calls) /\ ClassOf(kept[n].call, host) \in AppClasses
    <2>1. kept[n] \in set
      BY <1>4 DEF ToSet
    <2> QED
      BY <1>2, <1>3, <2>1
  <1>6. ASSUME NEW call \in ToSet(found)
        PROVE  \E n \in 1 .. Len(kept) : call = kept[n].call
    BY DEF ToSet
  <1> HIDE DEF found
  <1>7. KeptCalls(Classified(calls, host)) = found
    BY <1>1 DEF classified
  <1> QED
    BY <1>5, <1>6, <1>7

\* The calls of all pages are the calls of each.
LEMMA CallsOfPages ==
  ASSUME NEW S, NEW pages, Len(pages) \in Nat,
         \A n \in 1 .. Len(pages) : pages[n].calls \in Seq(S)
  PROVE  /\ CallsOf(pages) \in Seq(S)
         /\ \A call \in ToSet(CallsOf(pages)) :
                \E n \in 1 .. Len(pages) : call \in ToSet(pages[n].calls)
         /\ \A n \in 1 .. Len(pages) : \A call \in ToSet(pages[n].calls) :
                call \in ToSet(CallsOf(pages))
  <1> DEFINE parts == [n \in 1 .. Len(pages) |-> pages[n].calls]
             N == Len(pages)
  <1>1. parts \in Seq(Seq(S)) /\ Len(parts) = N
    OBVIOUS
  <1>2. \A n \in 1 .. N : parts[n] = pages[n].calls
    OBVIOUS
  <1>3. CallsOf(pages) = FlattenSeq(parts)
    BY DEF CallsOf
  <1> HIDE DEF parts, N
  <1>4. /\ CallsOf(pages) \in Seq(S)
        /\ ToSet(CallsOf(pages)) = UNION {ToSet(parts[i]) : i \in 1 .. Len(parts)}
    BY <1>1, <1>3, ElementsOfFlattened
  <1>5. ToSet(CallsOf(pages)) = UNION {ToSet(pages[n].calls) : n \in 1 .. N}
    BY <1>1, <1>2, <1>4
  <1> QED
    BY <1>4, <1>5 DEF N

\* A page's row, a shared capability's and a correlation's call.
LEMMA PageRow ==
  ASSUME NEW page, NEW catalog
  PROVE  PageItem(page, catalog).type = "UI_PAGE"
  <1> DEFINE Covers(c) == c.category \in {"PAGE_OBJECT", "COMPONENT"} /\ page.title \in c.titles
             found == SelectInSeq(catalog, Covers)
  <1>1. PageItem(page, catalog) =
          IF found # 0
          THEN Item(Subject(page), "UI_PAGE", "REUSE_EXISTING", catalog[found].name)
          ELSE Item(Subject(page), "UI_PAGE", "CREATE_NEW", NoCapability)
    BY Zenon DEF PageItem
  <1> HIDE DEF found
  <1> QED
    BY <1>1 DEF Item

LEMMA SharedRow ==
  ASSUME NEW catalog, NEW n \in 1 .. Len(SharedCategories)
  PROVE  SharedItem(catalog, SharedCategories[n]).type # "API_ENDPOINT"
  <1>1. SharedItem(catalog, SharedCategories[n]).type = SharedCategories[n][2]
    BY DEF SharedItem, Item
  <1>2. SharedCategories[n][2] # "API_ENDPOINT"
    BY DEF SharedCategories
  <1> QED
    BY <1>1, <1>2

LEMMA CallOfCorrelation ==
  ASSUME NEW call, NEW catalog
  PROVE  CorrelateCall(call, catalog).call = call
  <1> DEFINE onPath == {i \in DOMAIN catalog : /\ catalog[i].category = "API_CLIENT"
                                               /\ EndpointMatches(catalog[i], call.path)}
             exact == {i \in onPath : catalog[i].method = call.method}
             x == catalog[CHOOSE i \in exact : TRUE]
             y == catalog[CHOOSE i \in onPath : TRUE]
             one == Cardinality(exact) = 1
             similar == exact = {} /\ Cardinality(onPath) = 1
             none == onPath = {}
  <1>1. CorrelateCall(call, catalog) =
          CASE one -> Correlated(call, "LIKELY_REUSABLE", x.name,
                                 IF x.pattern = call.path.segs THEN 100 ELSE 90)
            [] similar -> Correlated(call, "POSSIBLY_REUSABLE", y.name, 55)
            [] none -> Correlated(call, "NOT_FOUND", NoCapability, 85)
            [] OTHER -> Correlated(call, "MANUAL_REVIEW", NoCapability, 30)
    BY Zenon DEF CorrelateCall
  <1>2. one \in BOOLEAN /\ similar \in BOOLEAN /\ none \in BOOLEAN
    OBVIOUS
  <1>3. one /\ similar => FALSE
    <2>1. Cardinality({}) = 0
      BY FS_EmptySet
    <2> QED
      BY <2>1
  <1> HIDE DEF one, similar, none, x, y, exact, onPath
  <1> QED
    BY <1>1, <1>2 DEF Correlated

\* The rows that are endpoints are those of the calls, in their words.
LEMMA EndpointRows ==
  ASSUME NEW S, NEW pages, Len(pages) \in Nat, CallsOf(pages) \in Seq(S), NEW catalog,
         NEW item \in ToSet(ExtensionItems(pages, catalog)), item.type = "API_ENDPOINT"
  PROVE  \E call \in ToSet(CallsOf(pages)) : item.subject = <<call.method>> \o call.path.segs
  <1> DEFINE calls == CallsOf(pages)
             api == CorrelateCalls(calls, catalog)
             rows == CorrelateDatabase(calls, catalog)
             some == {c \in ToSet(rows) : c.status # "NOT_FOUND"}
             data == Among(rows, some)
             CallItem(c, words, type) ==
                Item(words \o <<c.call.method>> \o c.call.path.segs, type,
                     ItemClass[c.status], c.capability)
             a == [n \in 1 .. Len(pages) |-> PageItem(pages[n], catalog)]
             b == [n \in 1 .. Len(api) |-> CallItem(api[n], <<>>, "API_ENDPOINT")]
             c == [n \in 1 .. Len(data) |-> CallItem(data[n], <<"data behind">>, "DATABASE")]
             d == [n \in 1 .. Len(SharedCategories) |-> SharedItem(catalog, SharedCategories[n])]
             I == ToSet(a) \cup ToSet(b) \cup ToSet(c) \cup ToSet(d)
  <1>1. ExtensionItems(pages, catalog) = a \o b \o c \o d
    BY Zenon DEF ExtensionItems
  <1>2. Len(calls) \in Nat
    OBVIOUS
  <1>3. /\ Len(api) = Len(calls)
        /\ \A n \in 1 .. Len(calls) : api[n] = CorrelateCall(calls[n], catalog)
    <2> HIDE DEF calls
    <2> QED
      BY <1>2 DEF CorrelateCalls
  <1>4. Len(data) \in Nat
    <2> HIDE DEF calls, some
    <2>1. rows = [n \in 1 .. Len(calls) |-> rows[n]]
      BY DEF CorrelateDatabase
    <2>2. DOMAIN rows = 1 .. Len(calls)
      BY DEF CorrelateDatabase
    <2> HIDE DEF rows
    <2>3. \A n \in 1 .. Len(calls) : rows[n] \in ToSet(rows)
      BY <2>2, Zenon DEF ToSet
    <2>4. rows \in Seq(ToSet(rows))
      <3> DEFINE N == Len(calls)
      <3>1. N \in Nat /\ rows \in [1 .. N -> ToSet(rows)]
        BY <1>2, <2>1, <2>3
      <3> HIDE DEF N
      <3> QED
        BY <3>1
    <2>5. data \in Seq(ToSet(rows))
      BY <2>4, AmongElements
    <2> HIDE DEF data
    <2> QED
      BY <2>5
  <1>5. Len(SharedCategories) = 5
    BY DEF SharedCategories
  <1> HIDE DEF calls, api, data, rows, some
  <1>6. /\ a \in Seq(I) /\ \A e \in ToSet(a) : \E n \in 1 .. Len(pages) : e = a[n]
        /\ b \in Seq(I) /\ \A e \in ToSet(b) : \E n \in 1 .. Len(api) : e = b[n]
        /\ c \in Seq(I) /\ \A e \in ToSet(c) : \E n \in 1 .. Len(data) : e = c[n]
        /\ d \in Seq(I) /\ \A e \in ToSet(d) : \E n \in 1 .. Len(SharedCategories) : e = d[n]
    <2> DEFINE La == Len(pages)
               Lb == Len(api)
               Lc == Len(data)
               Ld == Len(SharedCategories)
    <2>1. a = [n \in 1 .. La |-> a[n]] /\ DOMAIN a = 1 .. La /\ La \in Nat
      OBVIOUS
    <2>2. b = [n \in 1 .. Lb |-> b[n]] /\ DOMAIN b = 1 .. Lb /\ Lb \in Nat
      BY <1>2, <1>3
    <2>3. c = [n \in 1 .. Lc |-> c[n]] /\ DOMAIN c = 1 .. Lc /\ Lc \in Nat
      BY <1>4
    <2>4. d = [n \in 1 .. Ld |-> d[n]] /\ DOMAIN d = 1 .. Ld /\ Ld \in Nat
      BY <1>5
    <2> HIDE DEF a, b, c, d, La, Lb, Lc, Ld
    <2>5. /\ \A n \in 1 .. La : a[n] \in I
          /\ \A n \in 1 .. Lb : b[n] \in I
          /\ \A n \in 1 .. Lc : c[n] \in I
          /\ \A n \in 1 .. Ld : d[n] \in I
      BY <2>1, <2>2, <2>3, <2>4, Zenon DEF ToSet
    <2> HIDE DEF I
    <2>10. a \in [1 .. La -> I] /\ b \in [1 .. Lb -> I]
      BY <2>1, <2>2, <2>5
    <2>11. c \in [1 .. Lc -> I] /\ d \in [1 .. Ld -> I]
      BY <2>3, <2>4, <2>5
    <2>12. La \in Nat /\ Lb \in Nat /\ Lc \in Nat /\ Ld \in Nat
      BY <2>1, <2>2, <2>3, <2>4
    <2>6. a \in Seq(I) /\ \A e \in ToSet(a) : \E n \in 1 .. La : e = a[n]
      <3>1. a \in Seq(I)
        BY <2>12, <2>10
      <3> QED
        BY <3>1, <2>1, <2>2, <2>3, <2>4, Zenon DEF ToSet
    <2>7. b \in Seq(I) /\ \A e \in ToSet(b) : \E n \in 1 .. Lb : e = b[n]
      <3>1. b \in Seq(I)
        BY <2>12, <2>10
      <3> QED
        BY <3>1, <2>1, <2>2, <2>3, <2>4, Zenon DEF ToSet
    <2>8. c \in Seq(I) /\ \A e \in ToSet(c) : \E n \in 1 .. Lc : e = c[n]
      <3>1. c \in Seq(I)
        BY <2>12, <2>11
      <3> QED
        BY <3>1, <2>1, <2>2, <2>3, <2>4, Zenon DEF ToSet
    <2>9. d \in Seq(I) /\ \A e \in ToSet(d) : \E n \in 1 .. Ld : e = d[n]
      <3>1. d \in Seq(I)
        BY <2>12, <2>11
      <3> QED
        BY <3>1, <2>1, <2>2, <2>3, <2>4, Zenon DEF ToSet
    <2> QED
      BY <2>6, <2>7, <2>8, <2>9 DEF La, Lb, Lc, Ld
  <1>7. item \in I
    <2> DEFINE ab == a \o b
               abc == ab \o c
    <2> HIDE DEF a, b, c, d, I
    <2>1. ab \in Seq(I) /\ ToSet(ab) = ToSet(a) \cup ToSet(b)
      BY <1>6, ElementsOfConcat
    <2> HIDE DEF ab
    <2>2. abc \in Seq(I) /\ ToSet(abc) = ToSet(ab) \cup ToSet(c)
      BY <1>6, <2>1, ElementsOfConcat
    <2> HIDE DEF abc
    <2>3. ToSet(abc \o d) = ToSet(abc) \cup ToSet(d)
      BY <1>6, <2>2, ElementsOfConcat
    <2>4. item \in ToSet(abc \o d)
      BY <1>1 DEF abc, ab
    <2> QED
      BY <2>1, <2>2, <2>3, <2>4 DEF I
  <1>8. item \notin ToSet(a)
    <2>1. \A n \in 1 .. Len(pages) : a[n] = PageItem(pages[n], catalog)
      OBVIOUS
    <2>2. \A n \in 1 .. Len(pages) : a[n].type = "UI_PAGE"
      BY <2>1, PageRow
    <2> HIDE DEF a, b, c, d, I
    <2> QED
      BY <1>6, <2>2
  <1>9. item \notin ToSet(c)
    <2> DEFINE subject(n) == <<"data behind">> \o <<data[n].call.method>> \o data[n].call.path.segs
    <2>1. ASSUME NEW n \in 1 .. Len(data) PROVE c[n].type = "DATABASE"
      <3>1. c[n] = Item(subject(n), "DATABASE", ItemClass[data[n].status], data[n].capability)
        OBVIOUS
      <3> HIDE DEF c, subject
      <3> QED
        BY <3>1 DEF Item
    <2> HIDE DEF a, b, c, d, I
    <2> QED
      BY <1>6, <2>1
  <1>10. item \notin ToSet(d)
    <2>1. \A n \in 1 .. Len(SharedCategories) : d[n] = SharedItem(catalog, SharedCategories[n])
      OBVIOUS
    <2>2. \A n \in 1 .. Len(SharedCategories) : d[n].type # "API_ENDPOINT"
      BY <2>1, SharedRow
    <2> HIDE DEF a, b, c, d, I
    <2> QED
      BY <1>6, <2>2
  <1>11. PICK n \in 1 .. Len(api) : item = b[n]
    <2> HIDE DEF a, b, c, d
    <2> QED
      BY <1>6, <1>7, <1>8, <1>9, <1>10 DEF I
  <1>12. api[n].call = calls[n]
    BY <1>3, CallOfCorrelation
  <1>13. item.subject = <<>> \o <<calls[n].method>> \o calls[n].path.segs
    BY <1>11, <1>12 DEF Item
  <1>14. <<>> \o <<calls[n].method>> = <<calls[n].method>>
    OBVIOUS
  <1>15. calls[n] \in ToSet(calls)
    BY <1>2, <1>3 DEF calls, ToSet
  <1> QED
    BY <1>13, <1>14, <1>15 DEF calls
\* Whatever is merged, classified and compared again, a row that is an
\* endpoint is a call of the application.
OfTheApplication(item, pages) ==
    \E call \in ToSet(CallsOf(pages)) :
        /\ item.subject = <<call.method>> \o call.path.segs
        /\ ClassOf(call, pages[1].host) \in AppClasses
LEMMA RowsAreOfTheApplication ==
  ASSUME NEW pages, IsDiscovery(pages), NEW framework, NEW given, NEW planned,
         NEW item \in ToSet(BuildReport(framework, pages, given, planned).items),
         item.type = "API_ENDPOINT"
  PROVE  OfTheApplication(item, pages)
  <1> DEFINE S == UNION {ToSet(page.calls) : page \in ToSet(pages)}
             N == Len(pages)
             calls == CallsOf(pages)
             host == IF pages = <<>> THEN "" ELSE pages[1].host
             kept == KeptCalls(Classified(calls, host))
             filtered == FilteredPages(pages, kept)
             catalog == framework.catalog
  <1>1. pages \in Seq(ToSet(pages)) /\ N \in Nat /\ \A n \in 1 .. N : pages[n] \in ToSet(pages)
    BY DEF IsDiscovery, IsSequence
  <1>2. ASSUME NEW n \in 1 .. N
        PROVE  "calls" \in DOMAIN pages[n] /\ pages[n].calls \in Seq(S)
    <2>1. /\ "calls" \in DOMAIN pages[n]
          /\ pages[n].calls \in Seq(ToSet(pages[n].calls))
      BY <1>1 DEF IsDiscovery, IsSequence
    <2>2. ToSet(pages[n].calls) \subseteq S
      BY <1>1
    <2> HIDE DEF S
    <2> QED
      BY <2>1, <2>2, SeqMonotonic
  <1> HIDE DEF S
  <1>3. /\ calls \in Seq(S)
        /\ \A call \in ToSet(calls) : \E n \in 1 .. N : call \in ToSet(pages[n].calls)
    BY <1>1, <1>2, CallsOfPages
  <1> HIDE DEF calls
  <1>4. \A call \in ToSet(kept) : call \in ToSet(calls) /\ ClassOf(call, host) \in AppClasses
    <2> HIDE DEF host
    <2> QED
      BY <1>3, KeptAreOfTheApplication
  <1> HIDE DEF kept, host
  <1>5. Len(filtered) = N
    BY <1>1 DEF FilteredPages
  <1>6. \A n \in 1 .. N : filtered[n].calls = Among(pages[n].calls, ToSet(kept))
    BY <1>1, <1>2 DEF FilteredPages
  <1> HIDE DEF filtered
  <1>7. \A n \in 1 .. N : /\ filtered[n].calls \in Seq(S)
                         /\ ToSet(filtered[n].calls) \subseteq ToSet(kept)
    <2> SUFFICES ASSUME NEW n \in 1 .. N
                 PROVE  /\ filtered[n].calls \in Seq(S)
                        /\ ToSet(filtered[n].calls) \subseteq ToSet(kept)
      OBVIOUS
    <2> DEFINE x == pages[n].calls
               set == ToSet(kept)
    <2>1. x \in Seq(S)
      BY <1>2
    <2>2. filtered[n].calls = Among(x, set)
      BY <1>6
    <2> HIDE DEF x, set
    <2>3. Among(x, set) \in Seq(S) /\ ToSet(Among(x, set)) = ToSet(x) \cap set
      BY <2>1, AmongElements
    <2> QED
      BY <2>2, <2>3 DEF set
  <1>8. /\ CallsOf(filtered) \in Seq(S)
        /\ \A call \in ToSet(CallsOf(filtered)) : call \in ToSet(kept)
    <2>1. Len(filtered) \in Nat /\ \A n \in 1 .. Len(filtered) : filtered[n].calls \in Seq(S)
      BY <1>1, <1>5, <1>7
    <2>2. /\ CallsOf(filtered) \in Seq(S)
          /\ \A call \in ToSet(CallsOf(filtered)) :
                \E n \in 1 .. Len(filtered) : call \in ToSet(filtered[n].calls)
      BY <2>1, CallsOfPages
    <2> QED
      BY <1>5, <1>7, <2>2
  <1>9. item \in ToSet(ExtensionItems(filtered, catalog))
    <2>1. BuildReport(framework, pages, given, planned).items =
            IF planned THEN ExtensionItems(filtered, catalog) ELSE <<>>
      BY Zenon DEF BuildReport, Classification, calls, host, kept, filtered
    <2>2. ToSet(<<>>) = {}
      BY DEF ToSet
    <2> HIDE DEF catalog
    <2> QED
      BY <2>1, <2>2
  <1>10. PICK call \in ToSet(CallsOf(filtered)) : item.subject = <<call.method>> \o call.path.segs
    <2>1. Len(filtered) \in Nat
      BY <1>1, <1>5
    <2> HIDE DEF catalog
    <2> QED
      BY <1>8, <1>9, <2>1, EndpointRows
  <1>11. call \in ToSet(calls) /\ ClassOf(call, host) \in AppClasses
    BY <1>4, <1>8
  <1>12. host = pages[1].host
    <2>1. N # 0
      BY <1>1, <1>3, <1>11
    <2>2. pages # <<>>
      BY <1>1, <2>1
    <2> QED
      BY <2>2 DEF host
  <1> QED
    BY <1>10, <1>11, <1>12 DEF calls, OfTheApplication

-----------------------------------------------------------------------------
(* The report in memory is the one of the discovery in memory. *)

\* Whatever is read back as a discovery is one.
GoodDiscoveries ==
    \A path \in DOMAIN disk : path.file = DiscoveryReport => IsDiscovery(disk[path])

Pipeline(j) ==
    /\ pc[j] \in {"idle", "preflight", "analyze", "discover", "report"} => report[j] = NoReport
    /\ pc[j] = "report" => IsDiscovery(discovery[j])
    /\ (report[j] # NoReport /\ args[j].command # "scaffold") =>
          /\ IsDiscovery(discovery[j])
          /\ report[j] = BuildReport(analysis[j], discovery[j], args[j].url, args[j].planned)

NInv == GoodDiscoveries /\ \A j \in Jobs : Pipeline(j)

\* A step is one job's.
LEMMA OnlyOne ==
  ASSUME Shape, NEW j \in Jobs, JobStep(j)
  PROVE  Only(j)
  <1> USE DEF Shape, Only, Go, Stop, Keep, inputs, output
  <1>1. CASE Start(j) \/ PreflightPasses(j) \/ PreflightFails(j)
    BY <1>1 DEF Start, PreflightPasses, PreflightFails
  <1>2. CASE AnalyzeFramework(j) \/ LoadFramework(j) \/ DiscoverUI(j) \/ LoadUI(j)
    BY <1>2 DEF AnalyzeFramework, LoadFramework, DiscoverUI, LoadUI
  <1>3. CASE InputFails(j) \/ Analyze(j) \/ QualityGate(j) \/ GitGate(j)
    BY <1>3 DEF InputFails, Analyze, QualityGate, GitGate, BuildPlan
  <1>4. CASE Confirmed(j) \/ Declined(j) \/ LoadSync(j) \/ LoadDiscovery(j) \/ LoadExtension(j)
    BY <1>4 DEF Confirmed, Declined, LoadSync, LoadDiscovery, LoadExtension
  <1>5. CASE Preview(j) \/ CheckTargets(j)
    BY <1>5 DEF Preview, BuildPlan, CheckTargets
  <1>6. CASE WriteFile(j) \/ WriteFails(j) \/ SaveManifest(j)
    BY <1>6 DEF WriteFile, WriteFails, SaveManifest
  <1> QED
    BY <1>1, <1>2, <1>3, <1>4, <1>5, <1>6 DEF JobStep

\* No other file is taken for a discovery report.
LEMMA NotADiscovery ==
    /\ \A d : Path(d, SyncReport).file # DiscoveryReport
    /\ \A d : Path(d, ExtensionReport).file # DiscoveryReport
    /\ \A j, n : Target(j, n).file # DiscoveryReport
    /\ \A j : ManifestPath(j).file # DiscoveryReport
  BY DEF Path, SyncReport, DiscoveryReport, ExtensionReport, ManifestFile, Target, ManifestPath

LEMMA OtherFile ==
  ASSUME GoodDiscoveries, NEW path, NEW content, Put(path, content),
         path.file # DiscoveryReport \/ IsDiscovery(content)
  PROVE  GoodDiscoveries'
  <1>1. /\ DOMAIN disk' = DOMAIN disk \cup {path} /\ disk'[path] = content
        /\ \A q \in DOMAIN disk : q # path => disk'[q] = disk[q]
    BY PutDomain
  <1> QED
    BY <1>1 DEF GoodDiscoveries, DiscoveryReport

\* Only discover writes discoveries.
LEMMA DiscoveriesStep ==
  ASSUME GoodDiscoveries, NEW j \in Jobs, JobStep(j)
  PROVE  GoodDiscoveries'
  <1>1. CASE UNCHANGED disk
    BY <1>1 DEF GoodDiscoveries, DiscoveryReport
  <1>2. CASE \E path, content : Put(path, content) /\ (path.file # DiscoveryReport \/ IsDiscovery(content))
    BY <1>2, OtherFile
  <1>3. CASE AnalyzeFramework(j)
    BY <1>2, <1>3, NotADiscovery DEF AnalyzeFramework
  <1>4. CASE DiscoverUI(j)
    <2>1. PICK pages \in Sites : Put(Path(home[j], DiscoveryReport), pages)
      BY <1>4 DEF DiscoverUI
    <2> QED
      BY <1>2, <2>1, SitesAssumption
  <1>5. CASE Analyze(j)
    <2>1. PICK result : Put(Path(home[j], ExtensionReport), result)
      BY <1>5 DEF Analyze
    <2> QED
      BY <1>2, <2>1, NotADiscovery
  <1>6. CASE WriteFile(j)
    <2>1. PICK n : Put(Target(j, n), plan[j].files[n])
      BY <1>6 DEF WriteFile
    <2> QED
      BY <1>2, <2>1, NotADiscovery
  <1>7. CASE SaveManifest(j)
    BY <1>2, <1>7, NotADiscovery DEF SaveManifest
  <1>8. CASE WriteFails(j)
    BY <1>1, <1>2, <1>8, NotADiscovery DEF WriteFails
  <1> QED
    BY <1>1, <1>3, <1>4, <1>5, <1>6, <1>7, <1>8
    DEF JobStep, Start, PreflightPasses, PreflightFails, LoadFramework, LoadUI, InputFails,
        QualityGate, GitGate, Confirmed, Declined, LoadSync, LoadDiscovery, LoadExtension,
        Preview, CheckTargets, inputs, output

\* Before the report is made there is none; afterwards nothing it was made
\* from changes.
LEMMA PipelineStep ==
  ASSUME RInv, GoodDiscoveries, NEW j \in Jobs, Pipeline(j), JobStep(j)
  PROVE  Pipeline(j)'
  <1>1. Shape /\ RightCommand(j)
    BY DEF RInv, JobInv
  <1>2. CASE /\ UNCHANGED <<args, analysis, discovery, report>>
             /\ \/ pc'[j] \notin {"idle", "preflight", "analyze", "discover", "report"}
                \/ pc[j] = "preflight" /\ pc'[j] = "analyze"
    BY <1>2 DEF Pipeline
  <1>3. CASE Start(j)
    <2>1. /\ pc[j] = "idle" /\ report' = report
          /\ pc'[j] # "report"
      BY <1>1, <1>3, InvocationAssumption DEF Start, Shape, Go
    <2> QED
      BY <2>1 DEF Pipeline
  <1>4. CASE PreflightPasses(j) \/ PreflightFails(j) \/ InputFails(j)
    BY <1>1, <1>2, <1>4 DEF PreflightPasses, PreflightFails, InputFails, Shape, Go, Stop, inputs
  <1>5. CASE AnalyzeFramework(j) \/ LoadFramework(j)
    <2>1. pc[j] = "analyze" /\ pc'[j] = "discover" /\ report' = report
      BY <1>1, <1>5 DEF AnalyzeFramework, LoadFramework, Shape, Go
    <2> QED
      BY <2>1 DEF Pipeline
  <1>6. CASE DiscoverUI(j) \/ LoadUI(j)
    <2>1. pc[j] = "discover" /\ pc'[j] = "report" /\ report' = report
      BY <1>1, <1>6 DEF DiscoverUI, LoadUI, Shape, Go
    <2>2. IsDiscovery(discovery'[j])
      <3>1. CASE DiscoverUI(j)
        BY <1>1, <3>1, SitesAssumption DEF DiscoverUI, Shape, Keep
      <3>2. CASE LoadUI(j)
        <4>1. /\ Path(home[j], DiscoveryReport) \in DOMAIN disk
              /\ discovery'[j] = disk[Path(home[j], DiscoveryReport)]
          BY <1>1, <3>2 DEF LoadUI, Exists, Shape, Keep
        <4>2. Path(home[j], DiscoveryReport).file = DiscoveryReport
          BY DEF Path
        <4> QED
          BY <4>1, <4>2 DEF GoodDiscoveries
      <3> QED
        BY <1>6, <3>1, <3>2
    <2> QED
      BY <2>1, <2>2 DEF Pipeline
  <1>7. CASE Analyze(j)
    <2>1. /\ pc[j] = "report" /\ pc'[j] \in {"done", "quality"}
          /\ UNCHANGED <<args, analysis, discovery>>
          /\ report'[j] = BuildReport(analysis[j], discovery[j], args[j].url, args[j].planned)
      BY <1>1, <1>7 DEF Analyze, Shape, Go, Stop, Keep
    <2>2. IsDiscovery(discovery[j])
      BY <2>1 DEF Pipeline
    <2> QED
      BY <2>1, <2>2 DEF Pipeline
  <1>8. CASE LoadSync(j) \/ LoadDiscovery(j) \/ LoadExtension(j)
    <2>1. /\ pc[j] \in {"load", "load_ui", "load_report"} /\ args' = args
          /\ pc'[j] \in {"load_ui", "load_report", "preview"}
      BY <1>1, <1>8 DEF LoadSync, LoadDiscovery, LoadExtension, Shape, Go
    <2>2. args[j].command = "scaffold"
      BY <1>1, <2>1 DEF RightCommand
    <2> QED
      BY <2>1, <2>2 DEF Pipeline
  <1>9. CASE QualityGate(j) \/ Confirmed(j) \/ Declined(j) \/ CheckTargets(j)
    BY <1>1, <1>2, <1>9
    DEF QualityGate, Confirmed, Declined, CheckTargets, Shape, Go, Stop, inputs
  <1>10. CASE GitGate(j) \/ Preview(j)
    BY <1>1, <1>2, <1>10 DEF GitGate, Preview, Shape, Go, Stop, inputs
  <1>11. CASE WriteFile(j) \/ WriteFails(j) \/ SaveManifest(j)
    BY <1>1, <1>2, <1>11 DEF WriteFile, WriteFails, SaveManifest, Shape, Go, Stop, inputs
  <1> QED
    BY <1>3, <1>4, <1>5, <1>6, <1>7, <1>8, <1>9, <1>10, <1>11 DEF JobStep

LEMMA PipelineStarts == Init => NInv
  BY ReportsAssumption DEF Init, NInv, GoodDiscoveries, Pipeline

LEMMA PipelineSteady == RInv /\ NInv /\ [Next]_vars => NInv'
  <1> SUFFICES ASSUME RInv, NInv, [Next]_vars PROVE NInv'
    OBVIOUS
  <1>1. CASE UNCHANGED <<disk, pc, inputs>>
    BY <1>1 DEF NInv, GoodDiscoveries, Pipeline, inputs, DiscoveryReport, NoReport
  <1>2. CASE CustomerSaves
    <2>1. GoodDiscoveries'
      BY <1>2, CustomerAssumption, OtherFile DEF CustomerSaves, NInv
    <2> QED
      BY <1>2, <2>1 DEF CustomerSaves, NInv, Pipeline, inputs, NoReport
  <1>3. ASSUME NEW j \in Jobs, JobStep(j) PROVE NInv'
    <2>1. GoodDiscoveries' /\ Pipeline(j)'
      BY <1>3, DiscoveriesStep, PipelineStep DEF NInv
    <2>2. Only(j)
      BY <1>3, OnlyOne DEF RInv
    <2>3. ASSUME NEW k \in Jobs \ {j} PROVE Pipeline(k)'
      <3>1. Pipeline(k)
        BY DEF NInv
      <3> QED
        BY <2>2, <3>1 DEF Only, Pipeline
    <2> QED
      BY <2>1, <2>3 DEF NInv
  <1> QED
    BY <1>1, <1>2, <1>3 DEF Next, Tick, vars

\* Calls are merged over the pages, classified once, and compared with the
\* calls of each page again; no static file, no call of a framework, of
\* analytics or of a third party becomes a row of any report, for any site.
THEOREM NoiseStaysOutHolds == Spec => []NoiseStaysOut
  <1>1. NInv => NoiseStaysOut
    <2> SUFFICES ASSUME NInv, NEW j \in Jobs, report[j] # NoReport, args[j].command # "scaffold",
                        NEW item \in ToSet(report[j].items), item.type = "API_ENDPOINT"
                 PROVE  OfTheApplication(item, discovery[j])
      BY DEF NoiseStaysOut, AppClasses, OfTheApplication
    <2> DEFINE pages == discovery[j]
               a == analysis[j]
               u == args[j].url
               w == args[j].planned
    <2>1. IsDiscovery(pages) /\ item \in ToSet(BuildReport(a, pages, u, w).items)
      BY DEF NInv, Pipeline
    <2> HIDE DEF pages, a, u, w
    <2>2. OfTheApplication(item, pages)
      BY <2>1, RowsAreOfTheApplication
    <2> QED
      BY <2>2 DEF pages
  <1>2. Spec => []NInv
    BY PipelineStarts, PipelineSteady, Invariance, PTL DEF Spec
  <1> QED
    BY <1>1, <1>2, PTL
=============================================================================
