-------------------------------- MODULE Deploy --------------------------------
(***************************************************************************)
(* infra/deploy/deploy.sh on one host: how a release moves the working     *)
(* tree, the images, the database schema, the containers and the systemd   *)
(* units, which steps may fail, and what a rollback puts back.             *)
(*                                                                         *)
(* A host builds its images and runs :latest, or it runs published images  *)
(* by a pinned tag (COMPOSE_OVERLAY).  api and web are containers; ingest  *)
(* is behind a compose profile: only `run' starts it, for the timers and   *)
(* for alembic, and `build', `pull' and `up' pass over it.                 *)
(*                                                                         *)
(* A release is a commit of a linear history, where a merge always         *)
(* fast-forwards.  What a commit builds is named by the commit that last   *)
(* changed it.  A deploy that is refused, or only checks, changes nothing. *)
(* The two files that hold the tag can be written, and nobody works on the *)
(* host by hand while a deploy runs.                                       *)
(***************************************************************************)
EXTENDS Integers

CONSTANTS
  MaxRelease       \* bound: the commits ever published

ASSUME DeployAssumption == MaxRelease \in Nat \ {0}

Releases == 1..MaxRelease
NoImages == 0

VARIABLES
  pinned,          \* whether COMPOSE_OVERLAY is set
  tip,             \* the newest published commit
  last,            \* commit -> the commits that last changed its images, migrations and units
  head,            \* the commit checked out
  pin,             \* IMAGE_TAG in .deploy.conf and .env.production
  image,           \* the images of api and web tagged :latest,
  worker,          \* and that of ingest
  spare,           \* the images of api and web tagged :rollback,
  workerSpare,     \* and that of ingest
  schema,          \* the newest migration applied
  running,         \* the images the containers run
  units,           \* the units installed
  step,            \* the step deploy.sh is at
  current,         \* its variables: the commit it leaves,
  target,          \* the commit it goes to,
  previous,        \* PREVIOUS_TAG
  exit,            \* how it ended
  agreed,          \* history: the tree, the images and the containers agreed when it began
  passed,          \* history: the releases that passed the health gate
  owed             \* history: a deploy has stopped between its checkout and its migrations,
                   \* or gone on without them

images == <<image, worker, spare, workerSpare>>
host == <<head, pin, images, schema, running, units>>
repo == <<pinned, tip, last>>
script == <<current, target, previous>>
history == <<agreed, passed, owed>>
deployVars == <<repo, host, step, script, exit, history>>

Parts == {"image", "schema", "units"}

\* After bootstrap: the first release is deployed, and alembic has run, for which a host that
\* builds has built the image of ingest.
DeployInit ==
  /\ pinned \in BOOLEAN
  /\ tip = 1
  /\ last = [r \in Releases |-> [part \in Parts |-> 1]]
  /\ head = 1 /\ pin = 1
  /\ image = 1 /\ worker = 1 /\ spare = NoImages /\ workerSpare = NoImages
  /\ schema = 1 /\ running = 1 /\ units = 1
  /\ step = "idle" /\ exit = "deployed"
  /\ current = 1 /\ target = 1 /\ previous = 1
  /\ agreed = TRUE /\ passed = {1} /\ owed = FALSE

\* A commit that adds a migration changes an image; one may change neither.
Push ==
  /\ tip < MaxRelease
  /\ tip' = tip + 1
  /\ \E changed \in SUBSET Parts :
       /\ "schema" \in changed => "image" \in changed
       /\ last' = [last EXCEPT ![tip + 1] =
                     [part \in Parts |-> IF part \in changed THEN tip + 1 ELSE last[tip][part]]]
  /\ UNCHANGED <<pinned, host, step, script, exit, history>>

-------------------------------------------------------------------------------

\* What compose starts, now: the containers,
Composed == IF pinned THEN pin ELSE image
\* and what `run' does; a pinned image is pulled for it, a local one used as it is.
Ingest == IF pinned THEN pin ELSE worker

\* Mutant: the diff is taken after git has moved.
MigrationsLeft == last[head]["schema"] < last[target]["schema"]
\* git diff --diff-filter=A: the target adds migrations to what was checked out.
Migrations == last[current]["schema"] < last[target]["schema"]

\* deploy.sh, with --ref or without, on a clean tree: the images are tagged before git moves.
\* A pinned host has none of these names.
Begin(r) ==
  /\ step = "idle"
  /\ r \in 1..tip /\ r # head
  /\ current' = head /\ target' = r /\ previous' = pin
  /\ spare' = IF pinned THEN spare ELSE image
  /\ workerSpare' = IF pinned THEN workerSpare ELSE worker
  /\ agreed' = (last[head]["image"] = running /\ Composed = running)
  /\ step' = "source"
  /\ UNCHANGED <<repo, head, pin, image, worker, schema, running, units, exit, passed, owed>>

\* git merge --ff-only, which is content with a target that is already in the history and
\* leaves the tree where it is.
Checkout ==
  /\ step = "source"
  /\ head' = IF target < head THEN head ELSE target
  /\ step' = "pin"
  /\ UNCHANGED <<repo, pin, images, schema, running, units, script, exit, history>>

\* The pinned tag follows the newest commit that changed an image.
MovePin ==
  /\ step = "pin"
  /\ pin' = IF pinned THEN last[head]["image"] ELSE pin
  /\ step' = "images"
  /\ UNCHANGED <<repo, head, images, schema, running, units, script, exit, history>>

\* Mutant: the units are installed as soon as the tree has them.
GetImagesAndUnits ==
  /\ step = "images"
  /\ image' = IF pinned THEN image ELSE last[head]["image"]
  /\ units' = last[head]["units"]
  /\ step' = IF Migrations THEN "schema" ELSE "start"
  /\ UNCHANGED <<repo, head, pin, worker, spare, workerSpare, schema, running, script, exit, history>>

\* pull, or build without the profile: api and web, all of it.
GetImages ==
  /\ step = "images"
  /\ image' = IF pinned THEN image ELSE last[head]["image"]
  /\ step' = IF Migrations THEN "schema" ELSE "start"
  /\ UNCHANGED <<repo, head, pin, worker, spare, workerSpare, schema, running, units, script, exit,
                 history>>

\* `run ingest alembic upgrade head': up to the head of the image of ingest, which does not know a
\* revision newer than its own.  Where that image is old, it succeeds without the target's.
Migrate ==
  /\ step = "schema"
  /\ schema <= last[Ingest]["schema"]
  /\ schema' = last[Ingest]["schema"]
  /\ owed' = (owed \/ schema' < last[head]["schema"])
  /\ step' = "start"
  /\ UNCHANGED <<repo, head, pin, images, running, units, script, exit, agreed, passed>>

\* docker compose up -d.
Up ==
  /\ step = "start"
  /\ running' = Composed
  /\ step' = "gate"
  /\ UNCHANGED <<repo, head, pin, images, schema, units, script, exit, history>>

Healthy ==
  /\ step = "gate"
  /\ step' = "units"
  /\ passed' = passed \cup {head}
  /\ UNCHANGED <<repo, host, script, exit, agreed, owed>>

Unhealthy ==
  /\ step = "gate"
  /\ step' = "undo"
  /\ UNCHANGED <<repo, host, script, exit, history>>

\* Mutant: only local images are retagged, which a pinned host does not run.
UndoRetagsAlone(started, ending) ==
  /\ step = "undo"
  /\ pin' = pin
  /\ image' = IF pinned \/ spare = NoImages THEN image ELSE spare
  /\ worker' = IF pinned \/ workerSpare = NoImages THEN worker ELSE workerSpare
  /\ head' \in {current, head}
  /\ running' = IF ~started THEN running ELSE IF pinned THEN pin' ELSE image'
  /\ exit' = ending
  /\ step' = "idle"
  /\ UNCHANGED <<repo, spare, workerSpare, schema, units, script, history>>

\* The tag or the images and the containers go back, the schema does not; the tree does unless its
\* checkout fails, which is ignored.
UndoTo(started, ending) ==
  /\ step = "undo"
  /\ pin' = IF pinned THEN previous ELSE pin
  /\ image' = IF pinned \/ spare = NoImages THEN image ELSE spare
  /\ worker' = IF pinned \/ workerSpare = NoImages THEN worker ELSE workerSpare
  /\ head' \in {current, head}
  /\ running' = IF ~started THEN running ELSE IF pinned THEN pin' ELSE image'
  /\ exit' = ending
  /\ step' = "idle"
  /\ UNCHANGED <<repo, spare, workerSpare, schema, units, script, history>>

Undo == UndoTo(TRUE, "rolled back")
UndoFails == \E started \in BOOLEAN : UndoTo(started, "failed")

\* install-systemd.sh, only when the release changes the units; failing, it is a warning.
Reinstall ==
  /\ step = "units"
  /\ units' \in IF last[current]["units"] = last[head]["units"] THEN {units}
                ELSE {units, last[head]["units"]}
  /\ exit' = "deployed"
  /\ step' = "idle"
  /\ UNCHANGED <<repo, head, pin, images, schema, running, script, history>>

-------------------------------------------------------------------------------
(* Where the script stops *)

\* die, or a kill: nothing is put back.
Stop ==
  /\ step' = "idle"
  /\ exit' = "failed"
  /\ owed' = (owed \/ (Migrations /\ step \in {"pin", "images", "schema"}))
  /\ UNCHANGED <<repo, head, pin, worker, spare, workerSpare, units, script, agreed, passed>>

\* Some of the images may have been built.
ImagesFail ==
  /\ step = "images"
  /\ Stop
  /\ image' \in IF pinned THEN {image} ELSE {image, last[head]["image"]}
  /\ UNCHANGED <<schema, running>>

\* Each migration is a transaction.
MigrateFails ==
  /\ step = "schema"
  /\ Stop
  /\ schema' \in {schema} \cup
                 {s \in {last[r]["schema"] : r \in 1..tip} : schema < s /\ s <= last[Ingest]["schema"]}
  /\ UNCHANGED <<image, running>>

UpFails ==
  /\ step = "start"
  /\ Stop
  /\ running' \in {running, Composed}
  /\ UNCHANGED <<image, schema>>

\* The checkout fails, or the script is killed between two steps.
Killed ==
  /\ step # "idle"
  /\ Stop
  /\ UNCHANGED <<image, schema, running>>

-------------------------------------------------------------------------------

\* deploy.sh --rollback.  A pinned host has no images of these names, and is refused.
Rollback ==
  /\ step = "idle"
  /\ ~pinned /\ spare # NoImages /\ workerSpare # NoImages
  /\ image' = spare /\ worker' = workerSpare
  /\ \/ running' = spare /\ exit' = "restored"
     \/ running' \in {running, spare} /\ exit' = "failed"
  /\ UNCHANGED <<repo, head, pin, spare, workerSpare, schema, units, step, script, history>>

\* What no script does on a host that builds: an operator builds the image of ingest from the
\* tree, and may run alembic in it.
IngestByHand ==
  /\ step = "idle" /\ ~pinned
  /\ worker' = last[head]["image"]
  /\ \/ schema' = schema
     \/ schema <= last[head]["schema"] /\ schema' = last[head]["schema"]
  /\ UNCHANGED <<repo, head, pin, image, spare, workerSpare, running, units, step, script, exit, history>>

DeployNext ==
  \/ Push \/ Rollback \/ IngestByHand
  \/ \E r \in Releases : Begin(r)
  \/ Checkout \/ MovePin \/ GetImages \/ Migrate \/ Up \/ Healthy \/ Reinstall
  \/ Unhealthy \/ Undo \/ UndoFails
  \/ ImagesFail \/ MigrateFails \/ UpFails \/ Killed

DeploySpec == DeployInit /\ [][DeployNext]_deployVars

-------------------------------------------------------------------------------

\* What deploy.sh says when it ends is so of what serves: after "deployed" the tree, what compose
\* starts and the containers are of one release (not always of the one it was asked for: an
\* older commit is never checked out), and after "rolled back to" the last two are of the commit
\* that it names, unless they already differed when it began: a deploy that stops halfway
\* leaves the tree, and maybe the images, ahead of the containers.
ExitsTellTheTruth ==
  step = "idle" =>
    /\ exit = "deployed" => last[head]["image"] = running /\ Composed = running
    /\ exit = "rolled back" /\ agreed => last[current]["image"] = running /\ Composed = running

Applied(r) == last[r]["schema"] <= schema

\* The containers never run code whose migrations are missing, nor do containers or an ingest
\* that are started after a deploy, whatever is rolled back and in whatever order releases are
\* deployed, until a deploy leaves migrations behind for good: it stops between its checkout and
\* its migrations, and the next one looks for migrations from the commit that this one left
\* checked out; or it takes the image of ingest for up to date, on a host that does not rebuild it.
SchemaCovers ==
  \/ owed
  \/ Applied(running) /\ (step = "idle" => Applied(Composed) /\ Applied(Ingest))

\* deploy.sh installs units "deliberately after the health gate": those on the host are of a
\* release that passed it, or are left from before.
UnitsHavePassed == \E r \in passed : units = last[r]["units"]

-------------------------------------------------------------------------------
(* Strengthenings *)

Steps == {"idle", "source", "pin", "images", "schema", "start", "gate", "units", "undo"}

DeployTypes ==
  /\ pinned \in BOOLEAN /\ tip \in Releases
  /\ last \in [Releases -> [Parts -> Releases]]
  /\ {head, pin, image, worker, running, current, target, previous} \subseteq 1..tip
  /\ {spare, workerSpare} \subseteq 1..tip \cup {NoImages}
  /\ schema \in Releases /\ units \in Releases
  /\ step \in Steps /\ exit \in {"deployed", "rolled back", "failed", "restored"}
  /\ agreed \in BOOLEAN /\ owed \in BOOLEAN /\ passed \subseteq 1..tip

\* Commits take up what those before them changed, and the images of a commit bring its migrations.
HistoryIsLinear ==
  \A r \in 1..tip :
    /\ {last[r]["image"], last[r]["schema"]} \subseteq 1..r
    /\ last[last[r]["image"]]["schema"] = last[r]["schema"]
    /\ \A q \in 1..r : last[q]["schema"] <= last[r]["schema"]

\* What is of one release at which step, and what an undo needs to put it back.
HostFollowsTheTree ==
  LET built == last[head]["image"] IN
  /\ step = "source" => head = current
  /\ step = "images" /\ pinned => pin = built
  /\ step \in {"schema", "start", "gate", "units"} => Composed = built
  /\ step \in {"gate", "units"} => running = built
  /\ step # "idle" /\ agreed =>
       last[current]["image"] = IF pinned THEN previous ELSE spare
  /\ step = "units" => head \in passed

\* As long as nothing is owed, whatever may be started has its migrations, except what a deploy
\* has fetched and is about to apply them for.
MigrationsComeFirst ==
  LET coming == step \in {"pin", "images", "schema"} /\ Migrations IN
  ~owed =>
    /\ Applied(running) /\ (spare # NoImages => Applied(spare))
    /\ Applied(worker) /\ (workerSpare # NoImages => Applied(workerSpare))
    /\ coming \/ (Applied(head) /\ Applied(pin))
    /\ pinned \/ Applied(pin)
    /\ (step = "schema" /\ ~pinned) \/ Applied(image)
    /\ step = "schema" => Migrations
    /\ step # "idle" => Applied(current) /\ Applied(previous)

DeployInv ==
  /\ DeployTypes /\ HistoryIsLinear /\ HostFollowsTheTree /\ MigrationsComeFirst
  /\ ExitsTellTheTruth /\ UnitsHavePassed
===============================================================================
