# A formal model of llmlab

llmlab measures language-model servers on machines that also serve production,
watches a fleet of such servers, and offers them to users. This directory holds
TLA+ models of the parts whose correctness depends on the order in which things
happen, the TLC runs that check them, and the proofs that TLAPS checks. Paths
below are relative to the repository.

## 1. Inventory

| part | source | state it keeps | operations | how it interacts |
|---|---|---|---|---|
| campaign window | `benchmarks/window.py` | `entered`, `closed`, `prod_down`, the lease, `RESTORE-RESULT.md` | `enter`, `heartbeat_tick`, `exit` | sends commands to the target through a backend; called by the runner |
| watchdog | `campaign-watchdog.sh` (not in the repository), armed by `benchmarks/backends/real.py` | lease, deadline, heartbeat and kill-manifest files on the target | arm, disarm, rearm, fire | fires when the runner stops beating or the deadline passes |
| runner | `benchmarks/runner.py` | `cells_done`, attempt directories, `state.json`, `final.json` | preflight, window, cells, gates, attempts, `_finish` | drives every other part of the platform |
| verdict and evidence | `benchmarks/verdict.py`, `evidence.py` | none | `evaluate`, `decide`, `campaign_final` | functions of the evidence of an attempt |
| classifier | `benchmarks/classifier/` | none | `classify` | regular expressions over a server's log |
| preparation | `spec.py`, `freeze.py`, `deploy.py`, `ingest.py`, `campaign.py` | `freeze.json`, the bundle on the target | validate, prepare, deploy, run, ingest | before and after a run |
| host checks | `preflight.py`, `host_failure.py` | the record of t0 | compare probes with a profile or a record | before the window and before every cell |
| clients | `benchmarks/clients/` | `client.json` | measure one segment | run on the target against the launched server |
| hub: polling | `hub/llm-hub.py`, `poll`, `_poll_*`, `snapshot`, `restore`, `_control_post` | a `Server` object per backend: rows, `online`, `missed`, `last_seen`; the snapshot file | poll, load and unload, save, restore | one poller thread goes over all servers and writes, request threads read |
| hub: cards | `hub/llm-hub.py:poll_gpus`, `prom_text`; `hub/gpu-sidecar.py` | `gpus`, `gpus_ts`, `gpus_stale` | ask the sidecar, age the sample, export it | the sidecar runs on the host of the server, or of another one |
| hub: llama counters | `hub/llm-hub.py:_rate`, `_poll_router`, `parse_engine_json` | `_counters`, `_rawgen`, `_rawprompt` | rates and stall flag from counters that restart, freeze, or count late | reads the child a router has loaded, or a JSON dashboard |
| hub: vLLM windows | `hub/llm-hub.py:_apply_vllm_metrics`, `_poll_vllm`, `_poll_vllmmux` | `_winbuf`, `_ppbuf`, the prefill timer, `_vlast` | windows over counters and histograms | one engine at a time behind a mux |
| hub: vision routing | `hub/vision_routing.py`, `llm-hub.py:_vision_candidates` | none | normalise, reject, order, name a choice and its reasons | answers clients from what the poller knows |
| openjev: store | `openjev/server.py`, saved cases | use cases in memory and on disk | create, update, delete, run | concurrent request handlers |
| openjev: service | `openjev/server.py`, the model and the prompter | `_agent`, `_load_seconds`, `_state` | load, decide, batch, benchmark, health, stream | a loader thread, coroutines that hold the event loop, threads beside it, the hub as upstream |
| web, scripts, legacy | `web/`, `scripts/`, `benchmarks/legacy/` | | | one-off tools and presentation |

What is hard, and what each part owes because of it:

* **window and watchdog.** Two processes on two machines restore the same
  production service; either may die, hang, or be late, and commands between
  them are lost. Owed: production comes back or a human is asked for; a verdict
  on record is true; nothing of a campaign stays behind; the measured server
  never runs beside production.
* **attempt.** The code never sees what the engine did. It sees reports that may
  be missing or about less than was declared. Owed: a PASS is earned, an
  accusation is a fact, a documented wall is an answer.
* **cells.** Retries, gates that read files of earlier cells, early stops, and a
  second launch over the files of the first. Owed: the final and the records
  agree with what is on disk; a gated cell runs only on what it asked for.
* **hub.** Pollers and request threads share objects without a common lock;
  servers come and go, restart and take each other's place between two polls, or
  between the two requests of one poll. Owed: no rate that never was, no window
  over two engines, no stale value shown as current, an advice that clients can
  follow, and agreement with a server that stays as it is.
* **openjev, service.** The server answers while its model loads; coroutines hold
  the loop that everybody else needs; a batch goes on past errors and a stream past
  error chunks. Owed: readiness is not taken back, no state or piece of text is
  lost, everybody is answered.
* **openjev, store.** Read-modify-write over a dictionary and a file. Owed: no lost
  update, no deleted case that comes back, a file that holds what clients were
  answered.

`PROJECT.json` lists the components with their status, and every hazard at the
line where it bites, with the property that would catch it or the reason why
none does.

## 2. Modules

| module | models | abstract of |
|---|---|---|
| `CampaignWindow` | `Window.enter/exit/heartbeat_tick/_restore_only`, the `try` statement of `Runner.run`, `_finish`, the server's life in an attempt, the target, the watchdog | implements `ProductionGuard` |
| `ProductionGuard` | what the window promises the owner of production | |
| `Evidence` | `evidence.evaluate` | |
| `Verdict` | `verdict.decide`, `CLASS_TO_VERDICT`, `campaign_final` | |
| `Attempt` | `Runner._run_attempt`: segments, boot, client, fetch, pull, contract, verdict | uses `Evidence`, `Verdict` |
| `CampaignRunner` | the loop of `Runner.run`, `_run_cell`, `_effect_gate`, the run directory, a second launch | uses `Verdict` |
| `UseCaseStore` | create, update and delete of saved use cases, the save, a restart (`openjev/server.py`) | |
| `JevService` | the model's loader, the event loop, the routes that need the model, health and the prompter (`openjev/server.py`) | |
| `VisionRouting` | `vision_routing.py` as operators over candidates | |
| `VisionAdvisor` | the advisor over candidates that a poller sees change | uses `VisionRouting` |
| `HubPoll` | one server, its poller, `snapshot` and `restore`, load and unload, and the choice `VisionRouting` makes of it | uses `VisionRouting` |
| `HubGpus` | the cards of one server: sidecar, `poll_gpus`, snapshot, export | |
| `RouterMetrics` | `_rate`, the stall flag and `parse_engine_json`, over a llama.cpp child or a JSON dashboard | |
| `EngineWindows` | `_apply_vllm_metrics`, `_counter_delta`, `_bucket_deltas`, `hist_quantile`, under `_poll_vllm` and `_poll_vllmmux` | |
| `MC...` | the instances TLC checks | |
| `..._proofs` | the theorems | |

### CampaignWindow

`pc` is where the runner's process is: a step of `enter()`, of the cells, of
`exit()`, or of the `except` clauses. Each action is one call that reaches the
target or one assignment others can observe. `prod`, `temp`, `server`, `sidecar`
are the machine; `wd`, `lease`, `expired`, `stale`, `wdResult` are the watchdog
and its files; `window`, `closed`, `prodDown`, `verified`, `result` are the
attributes of the `Window` and the verdict it writes. A call that is cut short
may or may not have had its effect, so the actions that carry a fault have both
outcomes. Thirteen kinds of fault are named in the module, and the set
`Scenarios` says which may meet in one window; a kind may strike any number of
times. The watchdog script is not in the repository: its steps are those of
`FixtureBackend.simulate_watchdog_fire`, with the parameters
`RealBackend.arm_watchdog` gives it. (`HeartbeatTick`, `Overdue`, `Fire`.)

`Survivable` names the combinations of faults the code does not survive, each
for a reason that can be read off it: a SIGINT inside `prod_stop` (the verdict
is N/A with production down), a runner that is killed and a start that fails (the
watchdog starts production once and writes its verdict), a permanent step with a
runner that dies before the rearm (there is no watchdog in between, although
`handoff/runbook.md:33` says there always is).

Some properties speak of campaigns without certain faults, because the code does not guard
against them. `NothingLeftBehind` leaves out a disarm that is lost (the watchdog fires after the exit, and its
`undo.sh` applies the temporary changes again), an undo that fails (it is logged, and the verdict is
of production alone), and lost commands; `MeasuredAlone` leaves out commands that fail, because
a `wait_ready` or a `start_telemetry` that raises never comes to the clause that kills the server
(`runner.py:380`), which then runs beside production. A command that returns a nonzero code is not one that raises:
a temporary change is then logged and `enter()` goes on (`real.py:457`), and `kill` takes it for a process
that is dead (`real.py:280`); `ApplyTempChanges` and `KillServer` have both outcomes.

### Attempt

`sent` and `served` are what really happened to each request; the code does not
see them. `Rows` and `ServerLog` are what client and engine report of it, with
fields that may be absent by the kind of cell: whether the client repeats the
declared size, counts what it encoded, transcribes the server's usage; whether
the engine logs counts. `EvaluateContract` and `DecideVerdict` apply `Evaluate`
and `Decide` to that and nothing else. Reports are taken to be honest.

### CampaignRunner

An attempt is two steps, for the runner can die between them: `RunAttempt`
(client.json on the target, the data judged, the local copy) and `WriteVerdict`
(verdict.json, then a retry or the end of the cell). A file is the launch it was
written in and the metric in it, which is what gates compare. Any verdict that
the data allows may come out, so the module's properties do not rest on
`Attempt`. `Relaunch` is `campaign.py run` on the newest prepared run directory;
it starts from an empty `cells_done`, since `_state_save` is called by tests only. It
may always start; a real backend refuses it while files of the launch before are on the target
(`deploy.push`, `campaign.py:252`). Cells are told apart exactly, though the glob of a gate (`runner.py:562`) also
takes the attempts of a cell `a-b` for those of a cell `a`.

### UseCaseStore

`saved` is the dictionary `_saved`, `disk` the file, `lock` is `_saved_lock`.
`pc` of a handler is `asked` between the part of a request that only reads
(choosing an id without the lock, finding the entry under it) and the locked
section that writes; `saving` between the change in memory and the end of
`_persist_saved`. `promised` is the specification: what a client may find under
an id given the answers so far, computed from the requests alone. A request that
ended in an error 500, or with the process, leaves two possibilities. Titles and
summaries are part of `state`. An id is chosen in one step, though
`_unique_id` looks at one candidate after the other. Two creates may choose the
same id, and the later one then replaces the case of the earlier one: the code
allows it, `promised` follows it, and no property forbids it.

### JevService

`loader` is how far `_preload` is in its three assignments; `agent`, `loadSec`
and `state` are those globals. A request is taken in by the event loop in the
order of arrival (`queue`): the handlers declared `async` (`Coroutines`) then hold
`loop` until they have their answer, because they call the model without an await
in between; all others run in threads, and need the loop again to deliver.
`step` is where a handler is between two reads of shared state, so `health`
reads `state` and then the time, and `agent_models` reads the hub's servers and
then its models. Questions are their type and the form of what each of the three
keys holds. `results` are the entries of a batch, the runs of a benchmark, or the
events of a stream; `heard` is what the upstream sent. The history `told` is true
once a client was answered as by a loaded model, `knew` that it was so when the
request was sent.

### VisionRouting and VisionAdvisor

A candidate is a record, unknown fields are `None`. `Normalize`, `Reject`,
`Saturated`, `CapacityClass`, `SortKey` and `RouteVision` are the functions of
that name; `Precedes` is the order that Python's sort gives tuples, and
`Best(cands, S, n)` the first n of a set in it. `VisionAdvisor` lets a poll change one
candidate at a time and evaluates each request on what the hub has then. Reasons
are the codes, without `loaded` and `image_capable`, which every answer has, and `queued`, which goes with
`only_queued_available`; the numeric score and the texts are left out, and so is the truncation of fractions by
`int()` in `normalize_candidate`, since the numbers come from launch arguments and counts.

### HubPoll

One server, because pollers share nothing but their thread. `up`, `roster` and
`loaded` are the server, `rows` what the hub has of it, `fetched` the reply in the
poller's hands between the request (made without the lock) and the rows' replacement. The
last part of a poll is three steps, `Apply`, `Succeed` or `Fail`, `Rest`, since a reader may come
between them. Times are ages in ticks: `last_seen` is the start of the cycle, so
`Succeed` sets `seenAge` to the age of the cycle. `snapshot` replaces a file by
`os.replace`, hence `Saved` has two outcomes. Histories: `lost` is how long ago
a model was last served, `unheard` how long the server has been silent since the hub started.

`HintsMayLeave` says whether a model named in the configuration's hints may be
withdrawn from the listing of a llama router: then its row stays with the last
`loaded` for ever (`MCHubPoll_hints.cfg`).

### HubGpus

`driver` and `reached` are the host, `gpus` the age of the readings the hub has,
`claimed` the age it believes them to have (`gpus_ts`, which after a restart is the
time of the file), `stale` the flag that ends their export. `Ask` is the sidecar's handler: ok only
with a non-empty list. A sidecar answers at once from `nvidia-smi` and keeps nothing.

### RouterMetrics

The hub sees counters, and decides from two polls of them what a model's rates are and whether it
is stalled. `server` says what kind of process serves the model, for the whole of a behaviour, because
the hub does something else with each:

* `clocked`: it reports the seconds of its own work, so a rate is a quotient by its clock;
* `gauged`: it has the gauge `prompt_tokens_seconds`, which `_rate` prefers to the time between two polls. It is the
  last measured speed, and there is one as soon as a prompt was read;
* `freezes`: at any tick it may work while its counters stand still (`Unseen`), the builds the
  stall flag was made for (`llm-hub.py:1192`);
* `json`: its `/metrics` is a dashboard that `parse_engine_json` reads. Totals are of completed
  requests; what is generated in flight is added to them, with a clock made of the dashboard's mean
  speed, and a prompt in flight is not (`total`, `flight`, `Reported`, `Seconds`). At `Complete`
  totals take over, and the clock may be set back, because the mean was not that of this request;
* `dual`: it is in `dual_clock`, so the flag looks at both counters; `gpuBusy`: its GPU is;
* `rated`: which of the two rates the behaviour follows. `_counters` keeps an entry for each, and they do not
  meet; the stall flag looks at both raw counters in any case;
* `lives`: how many processes may come one after the other. `life` numbers them, which the hub cannot see.

`Work` is a tick of reading or generating, `Fetch` the listing and the metrics of a poll, `Reading`
what the hub makes of an answer, `Apply` the part of `_poll_router` under the lock, with `Counted` and
`Shown` for `_rate` and `Noticed` and `Stalls` for the flag. `counter` is the entry of `_counters`, `noted`
are `_rawgen` and `_rawprompt`.

Histories: `still` is for how long a counter did not move, `idle` for how long the work it counts was not done,
which are two things as soon as counters freeze or count late (`Tells`). `mixed` marks a rate whose
tokens and time are not of the same work (`Alike`): the counters of two processes, a clock that was
set back in between, or the first prompt of a JSON dashboard, whose clock is still 0.0 and so, by the
`or` of `llm-hub.py:1184`, none. Ages saturate above the limits and above the number of tokens, so
a saturated age still says that the rate over it is below one token a tick.

So `StallIsReal` asks two things of a flag: each counter it looks at stood still for so long, of whatever
build; and of a counter that follows the work, that the work was not done either. A build that freezes its counters is
flagged while it works, which is what the flag is for.

Assumed of a dashboard: it has a mean speed as soon as it has tokens of a request; one request is in flight at
a time; the clock it takes over is not above the one that was synthesized. Set-backs are whole ticks here, and
fractions of a second in the code.

### EngineWindows

The engine counts in lumps: a prompt's tokens with its first token, its phases
when it is finished. `count` has those counters the hub reads for what the
properties are about, `winbuf` and `ring` the two windows, `live` the prefill timer, `row` what
is shown. `Switched` and `Restarted` are the two detections that empty the
windows; `Hidden` is a restart that no reader of counters can see, since the new
process has already counted as much. The catalog (`Catalog`) and the metrics
(`Metrics`) of a mux are two requests, with engine steps between them. Times are whole ticks;
a quantile is in hundredths, rounded up (`RoundedUp`), since the code's, which are not rounded, are above
the bound below: rounding down put some of them onto it, and `QuantilesHold` then failed
with enough requests. Prompts are read one after the other; prefills that overlap are not modelled.

## 3. Runs

| run | shows | bounds |
|---|---|---|
| `window` | `TypeOK`, `NeverAbandoned`, `TruthfulVerdict`, `NothingLeftBehind`, `MeasuredAlone`, `OutageEnds` | all 16 profiles, any two kinds of fault, two launches of a server |
| `window_guard` | the window implements `ProductionGuard`, its liveness too | the 8 profiles without a restart of the target, the pairs of faults that are `Guardable`, one launch |
| `attempt` | `PassIsEarned`, `ViolationIsFact`, `WallIsAnswer`, `DeadServerHasNoNumbers` | seven shapes of cell, at most two requests and two segments |
| `cells` | `CompletedIsComplete`, `RecordsAreVerdicts`, `WholeRunNotCollapsed`, `GatedCellIsFounded` | matrices of one to three cells; two attempts, or two launches, or three measured values |
| `usecases` | `StoreTypeOK`, `PromisesKept`, `BuiltinsUnshadowed` | two handlers, two names, three ids of which one is built in, two question maps; any number of requests, failed saves and restarts |
| `jev` | `LoadedStaysLoaded`, `BatchIsolated`, `StreamIsWhole`, and that everybody is answered (`Responds`) | two clients with any number of requests, one of which talks to models of the hub too, three questions, batches of one and of one more than the cap of 2, streams of two chunks |
| `vision` | `QueuesOnlyIfAllDo`, `ReasonsAreTrue`, `AdviceIsStable` | any three rows out of fifteen observations, which are each way to be refused, each capacity class, and each tie |
| `hub_poll` | `ChoiceWasUsable`, `OnlineIsRecent`, `Converges` | one model, five entries of the configuration, `OFFLINE_AFTER` 2, cycles of at most one tick; any number of changes, polls, crashes |
| `hub_gpus` | `FrozenIsDropped`, `GpuOnlyOnlineIsRecent`, `KeepsLastGood`, `Settles` | one server of either kind, 2 ticks until stale |
| `hub_gpus_frozen` | that `FrozenNotExported` fails for a server of kind gpu-only | the same |
| `router_metrics` | `RateIsPhysical`, `StallIsReal`, `Settles` | six servers: honest counters with one clock and two processes; the same with two clocks; frozen counters and no clock; a gauge; a JSON dashboard by either rate, with one clock and with two. All have a busy GPU, without which nothing is flagged. Two tokens of what is rated and one of the other, two speeds, one set-back |
| `engine_windows` | `SpeedIsPhysical`, `QuantilesHold`, `NothingStraddles`, `WorkAddsUp`, `TimerIsHonest` | two engines behind a mux, two processes of one and two requests, two prompts, windows of two samples |

Every module with state says what its values may be (`TypeOK`, `StoreTypeOK`, `AdvisorTypeOK`).
The runs `window` and `usecases` check it; `TypeCorrect`, `StoreTypeCorrect`, `AdvisorTypeCorrect`,
`MetricsTypeCorrect` and `LaunchInvariant` prove it. The other theorems rest on typing parts of
their own invariants, which say what the steps need.

### Disagreements with what the repository says of itself

`hub_gpus_frozen` refutes "A frozen value must never masquerade as a current
reading" (`llm-hub.py:1714`): of a gpu-only server the poller never sets
`gpus_stale`, so the last sample stays in the export.

The configurations below each refute one more statement. They are kept beside
the runs and are started by hand (`tlc -config X.cfg M`, with M the name before the
underscore); TLC's trace is the explanation.

| configuration | statement | what the trace shows |
|---|---|---|
| `MCCampaignWindow_stopsignal` | an exit never assumes production is up (`window.py:98`) | SIGINT during `prod_stop`, verdict N/A, production down |
| `MCCampaignWindow_undo` | the watchdog finishes the exit, undo included (`handoff/runbook.md:30`) | `undo.sh` holds the apply commands |
| `MCCampaignWindow_page` | a failed restore pages URGENT (`notify.py:8`) | a completed campaign pages INFO |
| `MCAttempt_negative` | a documented negative is never INVALID (`verdict.py:27`) | a server that died at load logs no request, so the contract is VIOLATED first |
| `MCAttempt_segments` | the client runs once per segment (`runner.py:321`) | PASS with a segment that never booted |
| `MCCampaignRunner_resume` | complete cells are skipped on a re-launch (`runner.py:13`) | they run again, and their verdicts are written over |
| `MCCampaignRunner_feeds` | only passed attempts feed a gate (`runner.py:542`) | the client.json of one launch under the PASS of the next |
| `MCRouterMetrics_absorbed` | a clock that is set back when a request completes is treated as a restart, which re-baselines (`llm-hub.py:261`) | `_rate` compares the tokens only; if there are more of them they are divided by the time between two polls |
| `MCRouterMetrics_prompt` | a prompt that lands between two polls is divided by its real processing time (`llm-hub.py:1176`) | the first prompt of a JSON dashboard is divided by the time between two polls |
| `MCHubPoll_hints` | who is advised was served within the freshness limit (`vision_routing.py:204`, which rejects stale state) | a hinted model that left the listing of a router stays `loaded` and is advised |

Others that the models contain and no configuration is spent on. Campaigns: temporary
changes are applied before production is stopped (`handoff/runbook.md:27` has the
other order); a second `exit()` after an interrupted one returns at once
(`window.py:7` calls it idempotent); a verdict that names no transient failure
is retried too (`runner.py:288`); the campaign goes on after SAFETY_ABORT
(`handoff/runbook.md:48`); a missing probe value ends in UNKNOWN without an
engine (`runner.py:339` says HARNESS_FAILURE); a stop on a documented negative
ends the campaign in expected-negative whatever the cells before it came to
(`verdict.py:175` says a broken cell never collapses to that; runs to the end
never do, which is `WholeRunNotCollapsed`); one access-log line vouches for
every request (`evidence.py:37`); a client that merges its segments at the end
is judged by the log of its first (`clients/verify-lmcache.py:28`).

Hub: a server is `online` for up to `OFFLINE_AFTER - 1` failed polls, where
`vision_routing.py:87` says "reachable in latest poll cycle", and the help text of
`hub_server_online` (`llm-hub.py:1624`) "reachable on its last poll"; a candidate of unknown capacity is
given the reason `immediate_capacity`, "execution capacity free" (`vision_routing.py:156`); the rates of a llama
server that does not answer stay in its rows; a JSON dashboard is flagged as stalled while
it reads a long prompt, as `llm-hub.py:264` admits, and so is any model that did nothing while another kept
the GPU busy; a rate over a restart that
no counter shows is not "physically bounded" (`_rate`; the exception `mixed` of
`RateIsPhysical`), and neither the timer nor a window notices one either
(`TimerOfOneEngine` does not hold; `Hidden` and `Undetected` name the exception); a mux may
switch between its catalog and its metrics, and the sample then goes to the engine that left; a
restart forgets that a sample was stale until the next poll fails; the snapshot is skipped whenever a cycle steps over the first two seconds of a
minute (`poller`).

Service: while the model loads, `/v1/batch` answers 200 with an error per state,
where `openjev/README.md` has the inference routes answer 503; a `criteria` that
is null hides `options` and `labels`.

### Why the bounds are enough

Windows: an action depends on `hit` only through which kinds may still strike,
and `NeverAbandoned` needs two independent failures (the runner's and the
restorer's) to be at stake; profiles are all there are. `attempts` bounds the
launches, of which two are enough for a server that outlives its segment to meet
the next. Attempts: the contract treats rows alike but for their index, so two
requests show every misalignment; two segments are a first and a last one, which
is all `_run_attempt` and the merging client tell apart. Cells: a gate reads two
cells and guards a third; a retry and a re-launch each meet the files of one
predecessor. `values` hold zero, and gains above, at and below the floor of 50%
(2 to 3 is exactly at it). Use cases: two ids show that one request's save writes
the failed change of another; the slug of one name is the id the other name gets
instead of the built-in one. Service:
two clients are one that holds the loop and one that waits; a batch of Cap + 1
is cut and has a state before and one after the model becomes ready; two chunks show a
last text before and after another. Vision: the order looks at two rows at a time, and a
third is what they are compared with by the reasons. Hub: a constant of time
matters only by which comparison it passes, so the real ratios (15 polls to offline,
60 s to stale, 2 s a cycle) are replaced by the least that still have a poll before,
at and after each limit; ages saturate one above the largest limit. `hub_poll` reads one model at a time, and rows do
not influence each other. Two lives of a process are a restart; a third would compare
with the second as that does with the first. Of the llama servers only the first has two processes: what a
restart does to a counter is the same for all, and the theorems have it for any. Engines are symmetric behind a mux (`SYMMETRY`; no
liveness is checked in that run), and windows of two samples are what all windows
are compared by, since only their first and last sample are read.

### Deadlock and fairness

Campaigns end, so their runs do not check for deadlock, nor does `engine_windows`,
where bounded processes end; all others do.
Liveness (`OutageEnds`, and `OutageResolved` inside `GuardKept`) assumes weak fairness of three things:
the runner's own steps (its process runs until it ends or dies: `Crash` and the
faults stay unfair, and nothing says they stop), the passing of time once the
runner is gone, and the watchdog's steps once it may fire. Every command of the
backend has a timeout (`real.py`, `_ssh`), so a call returns or raises.

The hub's specifications assume that the poller runs (a loop whose requests all
time out, and that catches what a poll raises), that time passes, and that a hub
that died is started again (its systemd unit). `Converges` and `Settles` speak of what follows when nothing
outside changes any more, and never assume that it does. `Responds` assumes weak fairness of the event loop taking requests in and strong
fairness of each handler's steps, for asyncio serves ready callbacks in
order: a thread's answer needs the loop to be free, which it is again and again but not for
ever. Nothing is assumed of the loader: the model may load for ever, or fail.

## 4. Proofs

Every safety property of the runs is a theorem for all values of the constants, from the named
assumptions of its module, but for `FrozenNotExported`, which the code does not keep. A theorem about a property rests on an inductive invariant, and a
lemma per action says that the step keeps it; the temporal step is propositional. The
bounds of the runs are constants with any value in the theorems, so none of them hides a case.

`CampaignWindow_proofs`, for every set of profiles and scenarios and every
`MaxAttempts`:

| theorem | |
|---|---|
| `TypeCorrect` | `Spec => []TypeOK` |
| `Invariant` | the inductive invariant |
| `NoAbandonment` | `Spec => []NeverAbandoned` |
| `VerdictsAreTrue` | `Spec => []TruthfulVerdict` |
| `CleanExit` | `Spec => []NothingLeftBehind` |
| `MeasuresAlone` | `Spec => []MeasuredAlone` |
| `GuardIsKept` | `Spec => Guard!Safe`, the safety part of the refinement, if no profile restarts the target (`Steady`) and every scenario is `Guardable` (`Mild`) |

So the bound of two faults is not needed for safety: the theorems allow any
scenario. None of the four invariants is inductive: that a finished campaign
left nothing behind says nothing of a campaign half way. `IInv` adds what
each stage has already established or not yet done: where a server may be alive,
that nothing was stopped before `enter()` came to it, that the watchdog stands
from the arm to the disarm unless a named fault took it, that `prodDown` is true
when production was stopped unless SIGINT fell into `prod_stop`, and what an
`exit()` has restored by each of its steps. The refinement needs one part more
(`Warded`): a restore fails only after `enter()` is through, and the watchdog, once
armed, stays until it is disarmed or has spoken. The two premises are the profiles and faults of the
run `window_guard`: a target that restarts takes its watchdog with it, and the
faults `Guardable` excludes are those under which the code gives its guard up
early (section 2). The other part of `ProductionGuard!Spec`, `OutageResolved`, is liveness.

`CampaignRunner_proofs`, for every set of campaigns, numbers of attempts and launches:

| theorem | |
|---|---|
| `LaunchInvariant` | the inductive invariant of every launch, `TypeOK` in it |
| `RecordsStayVerdicts` | `Spec => []RecordsAreVerdicts` |
| `CompletedMeansComplete` | `Spec => []CompletedIsComplete` |
| `FirstLaunchInvariant` | the inductive invariant of a first launch |
| `WholeRunsAreNotCollapsed` | `Spec => []WholeRunNotCollapsed` |
| `GatedCellsAreFounded` | `Spec => []GatedCellIsFounded` |

A final is about all cells, so the invariant says that the loop has settled those behind it and
not touched those ahead (`Progress`), and what each final says when it is written
(`Concluded`). The last two theorems are about a first launch, since a second one writes over
the files of the first (`MCCampaignRunner_resume`, `_feeds`): a launch that begins in an
empty directory has left nothing ahead of itself (`Untouched`), judged the data that is on disk
(`Honest`), and tries no cell again that is settled (`SettledIsLast`, `LastStands`). A gate takes
a median over the PASSes of a cell; by `SettledIsLast` there is at most one, whose
median is its value.

`Attempt_proofs`, for every set of cells, classes of a log and size of a short prompt:

| theorem | |
|---|---|
| `AttemptInvariant` | the inductive invariant |
| `DeadServersHaveNoNumbers` | `Spec => []DeadServerHasNoNumbers` |
| `WallsAreAnswers` | `Spec => []WallIsAnswer` |
| `ViolationsAreFacts` | `Spec => []ViolationIsFact` |
| `PassesAreEarned` | `Spec => []PassIsEarned` |

The verdict is computed once from reports that no later step changes (`Evaluated`,
`Judged`), and in a cell of one segment everything the runner holds is that segment's
(`Alone`). The rest is about `Evaluate` and `Decide`: the rows of a cell that can be told by position stand in
the places of their requests (`RowsInPlace`), so what the contract compares at a position is about
one request. Earlier forms of the two properties were too strong, and are corrected where the proofs
failed: a request without a declared size before others moves what is compared (`Partial`, hence
`Positional`); no request at all is within the tolerance of a very short one (`Small`, hence `served[i] = 0` on its own in
`ViolationIsFact`); and the count of another request can stand in the log for one never answered.

`OpenJev_proofs`, about both modules of the service. Of the store, for every set of handlers,
names, ids and entries; of the model and the prompter, for any clients, questions and bounds on
batches and streams:

| theorem | |
|---|---|
| `StoreInvariant` | the inductive invariant |
| `StoreTypeCorrect` | `StoreSpec => []StoreTypeOK` |
| `PromisesAreKept` | `StoreSpec => []PromisesKept` |
| `BuiltinsStayVisible` | `StoreSpec => []BuiltinsUnshadowed` |
| `ServiceInvariant` | the inductive invariant |
| `ReadinessIsKept` | `Spec => []LoadedStaysLoaded` |
| `BatchesAreIsolated` | `Spec => []BatchIsolated` |
| `StreamsAreWhole` | `Spec => []StreamIsWhole` |

`PromisesKept` alone does not survive a step: two handlers in their saves would
each overwrite what the other promised. The invariant adds that the lock is held
by exactly the handler that saves (`Locked`), and that an id chosen for a new
case is not a built-in one (`Chosen`).

The service's has a part about the globals (`state` is "ready" only after the agent and
the time are there; who was told so, was told the truth), a part about the queue (no
client twice, and only those who wait), and one for each request (`Fine`): what a
handler has read by each of its steps, and that every result is dated, "loading" only before
the model was known to be there. `HandlersAreApart` shows that a handler changes its own request
only, so one lemma per step is about one request. For a stream, the place of a chunk among the
events is the number of chunks before it that carry something: `NextPlace` says that one more
chunk takes the next place or none, and moves no other.

`HubRouting_proofs`, about the poller that feeds the advisor and the advisor. Of `HubPoll`, for any
models, configurations and limits; of `VisionAdvisor`, for every finite set of rows, every set of
observations and every policy:

| theorem | |
|---|---|
| `MissesAreCounted` | the inductive invariant of misses and silence |
| `OnlineHasAnswered` | `Spec => []OnlineIsRecent` |
| `RowsAreBelievable` | the inductive invariant of rows and their age, if hinted models stay listed |
| `AdvisedWasServed` | `Spec => []ChoiceWasUsable`, if hinted models stay listed |
| `AdvisorTypeCorrect` | `AdvisorSpec => []AdvisorTypeOK` |
| `QueuesOnlyIfNeeded` | `AdvisorSpec => []QueuesOnlyIfAllDo` |
| `ReasonsStayTrue` | `AdvisorSpec => []ReasonsAreTrue` |
| `AdviceDoesNotFlap` | `AdvisorSpec => AdviceIsStable` |

The first two are by the argument of `HubGpus_proofs` below. The next two need that what a row says
is no older than `seenAge`, in all the places a row may come from: the hub, the file of an earlier
process (`Kept`), and the reply in the poller's hands, which is of this cycle (`Reply`) while
`seenAge` still is of an earlier one, between `Apply` and `Succeed`. The premise `HintsStay`
cannot be dropped: `MCHubPoll_hints` is the counterexample.

For the advisor the lemmas say what the sort does: keys of normalized candidates are four numbers
(`KeyComponents`), their order is lexicographic (`SmallerKey`), strict (`OrderIsStrict`) and total (`OrderIsTotal`), so of usable
rows one is first (`FirstExists`, since finite sets are well-founded under inclusion), nobody usable precedes
the choice (`ChoiceIsFirst`), which is no worse in capacity, then tier, then contention (`ChoiceIsLeast`), and a choice that does not get worse stays ahead of a rival that does not get
better (`OrderIsMonotone`).

`HubGpus_proofs`, for every staleness limit, number of misses and length of a cycle:

| theorem | |
|---|---|
| `GpusInvariant` | the inductive invariant |
| `ExportIsRecent` | `Spec => []FrozenIsDropped` |
| `OnlineGpusAreRecent` | `Spec => []GpuOnlyOnlineIsRecent` |
| `CardsStay` | `Spec => KeepsLastGood` |

A bound on an age is not inductive while a poll that should look at the age is still to come. The
invariant therefore counts from where the cycle is: before the poll of the cards an age
may exceed what it was at the last look by the cycle before (`Slack`) and by this one's
`cycleAge`. It adds that the hub never believes readings to be younger than they are
(`Recent`), that every miss is worth one cycle (`Misses`, where the product with
`MaxCycle` comes from), and that a measurement in the poller's hands lists cards
(`Fetching`).

`RouterMetrics_proofs`, for any speeds with a slowest and a fastest, and any limits, tokens, processes and
length of a cycle:

| theorem | |
|---|---|
| `MetricsInvariant` | the inductive invariant |
| `MetricsTypeCorrect` | `Spec => []TypeOK` |
| `RatesArePhysical` | `Spec => []RateIsPhysical` |
| `StallsAreReal` | `Spec => StallIsReal` |

They are for every set of servers, from two assumptions: on the constants (`MetricsAssumption`), and on what
goes with what in a server (`ServersAssumption`: a dashboard has a clock and no gauge, a gauge is of prompts).

A rate is a quotient of two samples, so the invariant bounds what one process may have counted between any
two of the places a sample can be in: the hub's entry, the reply in the poller's hands, the
child itself (`Child`, `Reply`). By the child's clock that is `Grown`, as long as the clock was not set back
between the two (`Follows`); by the hub's it is `InTime`, which a prompt that is counted at once does not keep. Samples of two
processes are bounded by nothing, and what is made of them is `mixed`. What is read must not jump when a request of a
dashboard completes, so the invariant says of what is in flight that its tokens and seconds fit too (`Flown`), and
that a gauge shows a speed where tokens were read (`Gauge`). The stall flag needs the
converse (`Noted`): a value noted as unchanged belongs to a counter that stood still as long, but for a
poll; and that a counter that follows the work stands still only as long as the work is not done (`Telling`).

`EngineWindows_proofs`, for any engines, prompts, bounds of the histogram and lengths of
windows and cycles:

| theorem | |
|---|---|
| `WindowsInvariant` | the inductive invariant |
| `WindowsStraddleNothing` | `Spec => []NothingStraddles` |
| `SpeedStaysPhysical` | `Spec => []SpeedIsPhysical` |
| `WorkStaysWhole` | `Spec => []WorkAddsUp` |
| `QuantilesStayInWindow` | `Spec => []QuantilesHold` |
| `TimerStaysHonest` | `Spec => TimerIsHonest` |

`NothingStraddles` holds between neighbours, but the rates read the first and the last sample. The invariant
says that the samples of a window follow each other (`InWindowOrder`), the answer under way follows
them and the engine all, and that from each sample on the window is of one process or has a
hidden change (`OneProcess`). What one process counts is a sum over prompts, so a quotient of two
such counts lies between the least and the greatest of the prompts' own (`Mixed`, `MixedQuotient`).
For a quantile, finite sets of bounds have a least and a largest member (`Extremes`), interpolation ends at
or below the bound that enough met and above the one before (`QuantileLies`), and more requests
never take it lower (`QuantilesInOrder`). The timer is compared with the silence of the engine it is of
(`Silent`).

Only model-checked:

* liveness: `OutageEnds`, `OutageResolved` in `GuardKept`, `Responds`, `Converges`, both `Settles`.
  Fairness and leads-to under it are not in the prover's reach;
* the refutations: `FrozenNotExported` and the configurations of section 3;
* that `Attempt` and `EngineWindows` keep their full `TypeOK` (the rows of a client that merges are built by a
  recursive function, and what that yields for any plan is an induction over data); the theorems rest on the
  typing parts of the invariants instead.

## 5. Not modelled

* Campaigns: the text of logs and the patterns that classify it; the content of prompts and
  plausibility gates (any outcome of theirs is allowed); telemetry; the scientific
  hash in `final.json`; rendering of command lines; the comparison of probes in
  `preflight.py` and `host_failure.py`, whose outcomes are inputs of the window; preparation and
  ingest.
* Hub: ratios of speculative decoding and of prefix caches, and the shape of requests, which for vLLM
  are quotients of the deltas that `EngineWindows` has, and for llama.cpp a second `_counters` entry
  and a window that is never emptied; the history of KV usage;
  authorization; the text of `/metrics` and of the pages. A reader is one step in the models:
  the walk of `/metrics` over rows that a poller replaces is not.
* Service: the questions' texts, the measured times, the priority of the prompter's
  models, the page.
* `web/` (a request starts a script as a child process and streams its lines; the path it
  builds, `web/app.py:176`, is one the script no longer has since it moved to `scripts/legacy`),
  `scripts/` (one-off programs that fetch and print) and `benchmarks/legacy/`, none of which
  keeps state that two actors share; browser pages.
* Llama counters: the share of a prompt that came from a cache, which `parse_engine_json` and `_poll_router` take
  off; dashboards that serve several requests at a time; a body that is neither a dashboard nor Prometheus text
  (`metrics_ok`).
* HTTP and ssh themselves, but for what is lost when they fail.

## 6. Plan

1. Proofs: an abstract specification of the store (a map that a client changes in one step) with the
   refinement from `UseCaseStore`; `Attempt` beneath `CampaignRunner`, so that the outcomes of
   a cell are those an attempt can have; the full `TypeOK` of `EngineWindows`.
2. `BundleDelivery`: prepare, deploy, verify, run and ingest over files that
   change in between, with `host_failure` and `preflight`.
3. A reader of `/metrics` that walks rows one at a time beside the poller, over two servers.
