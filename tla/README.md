# rlvm: TLA+ models of the volume lifecycle and its privilege boundary

rlvm is a Container Storage Interface (CSI) plugin that provisions LVM logical
volumes on a single host. It runs as four processes:

| process | source | role |
|---|---|---|
| controller | `src/crates/csi/src/controller.rs`, `bin/controller.rs` | CSI Controller service: CreateVolume, DeleteVolume, ListVolumes, GetCapacity, ValidateVolumeCapabilities |
| node | `src/crates/csi/src/node.rs`, `bin/node.rs` | CSI Node service: NodeStage/Unstage/Publish/UnpublishVolume |
| identity | `src/crates/csi/src/identity.rs` | CSI Identity service in both of the above (Probe) |
| volumed | `src/crates/volumed/src/server.rs`, `main.rs` | privileged: list/create/delete/format/get logical volumes in one volume group, free bytes |
| mountd | `src/crates/mountd/src/server.rs`, `lib.rs`, `main.rs` | privileged: resolve a volume to its device node, mount, unmount, under an owner/whitelist policy |

## Inventory

### Components, their state and operations

* **mountd** (mount authority). State it reads and changes: the host mount
  table (`mountpaths()`), the ownership of mounted directories (`chown` after a
  mount), the existence and metadata of paths. Immutable policy: `Config`
  (`for_user`, `for_group`, `whitelist` globs). Operations:
  `get_lvm_block_path(uuid)`, `mount(src, dst, flags)`, `unmount(path)`.
  `Config::ensure_interactable(path, readonly)` is the security policy: the
  path must exist, must not be read-only when a read-only mount is asked for
  (the code's test), and must match a whitelist glob or be owned by the pair.
* **volumed** (volume-group authority). State: the logical volumes of one
  volume group (name, uuid, size, tags), the group's `capacity_bytes`, the
  configured `spare_bytes`. Operations: `get_lv_list`, `get_free_bytes`,
  `create_logical_volume`, `delete_logical_volume`, `format_logical_volume`
  (`mkfs.xfs -f`), `get_logical_volume(name | uuid)`.
* **Controller**. Stateless; each RPC calls volumed. CreateVolume validates,
  reads free bytes, hashes the name into a "safe name", looks it up, reuses
  it (same size), fails `AlreadyExists` (other size) or creates it, and always
  formats it. DeleteVolume looks up by uuid and deletes by name, succeeding if
  absent. ListVolumes paginates; GetCapacity short-circuits; Validate confirms
  a fixed pair of capabilities.
* **Node**. Stateless; each RPC calls mountd. Stage mounts the device node on
  the staging path; Publish creates the target directory and bind-mounts the
  staging path onto it; Unpublish unmounts the target and removes the
  directory; Unstage unmounts the staging path.
* **Identity**. Probe calls volumed's free-bytes query (controller) or answers
  ready (node). No state.
* **Process bootstrap** (`main.rs`, `bin/*.rs`): configuration, socket, the
  interceptor that injects the volumed/mountd client or the volume group into
  every request, Ctrl-C shutdown. `Bootstrap.tla` models how the processes
  start and stop: the socket file each one binds, the plugins connecting to
  their authority, and cleanup only on SIGINT.

### How they interact

The container orchestrator (CO: kubelet, external-provisioner) calls the
controller and node over gRPC. The controller calls volumed and the node calls
mountd, each over one channel opened at start-up. All calls are request /
response; the authorities never call back. Every server runs on a
multi-threaded tokio runtime, so requests run in parallel. A CO call carries
a deadline (`grpc-timeout`), which tonic enforces: when it passes, the
handler is dropped at the await it is suspended in, and the CO retries. The
authorities' handlers have no await, so a call they have begun runs to its
end. There is no lock anywhere: each handler reads host state
(mount table, LV list) and acts on it later.

### What is hard

* check-then-act on the host mount table in mountd (`mountpaths()` read at the
  start of the handler, `mount(2)` later) under parallel requests;
* `ensure_interactable` matches the whitelist against the path as written but
  `mount(2)` follows symlinks;
* a mount that succeeds and a `chown` that then fails (read-only superblock):
  the error is returned with the mount left in place, and the retry is
  answered "OK" from the mount table without the `chown`;
* the inverted read-only test in `ensure_interactable`;
* CreateVolume's idempotency (lookup, then create) under two parallel
  identical requests, and LVM rounding sizes up to whole extents;
* the stage / publish / unpublish / unstage order, retries and timeouts of
  the CO;
* ListVolumes pagination (`starting_token` parsed and never applied,
  `next_token` decided against the page's length) and `start + max_entries`.

### Properties each component needs

* mountd: idempotent mount (never stacks a mount), the privilege boundary (the
  owner only reaches whitelisted or owned directories), a reported success
  means the mount is there and the owner's, permission denied only outside
  the documented policy.
* Node over mountd: a published target always shows the volume's filesystem,
  a staging path never carries two mounts, unpublish/unstage leave no mount,
  the lifecycle refines the abstract Unstaged/Staged/Published machine.
* Controller over volumed: an identical CreateVolume retry returns the same
  volume and never creates a second LV; DeleteVolume is idempotent; the spare
  reservation is kept; a CO that retries gets through its rounds.
* ListVolumes: paging through returns every volume exactly once and ends.

## Plan

1. `Mountd.tla` (done): the three mountd handlers, step by step, with request
   slots running in parallel, a symlink-capable owner, host mount table as a
   stack per directory. `MC_Mountd.tla` instantiates it.
2. `Node.tla` (done): the four Node handlers as steps of a request that calls mountd
   through the shared request slot, with a CO that follows the CSI order,
   retries on error and may time out a request, which cancels it, and retry.
3. `NodeLifecycle.tla` (done): the abstract per-volume machine
   Unstaged -> Staged -> Published, and `Node` shown to refine it under the
   protocol-following CO.
4. `Volumed.tla` and `Controller.tla` (done): LV list, extents, free bytes;
   CreateVolume/DeleteVolume as steps calling volumed, three parallel
   requests.
5. `ListVolumes.tla` (done): list_volumes over volumed's `get_lv_list`,
   and a CO that pages by next_token while other calls create and delete
   volumes. To make room in the budget of 12 runs, the two passing mountd
   runs were merged into `mountd_policy`.
6. (left) `Plugin.tla`,
   Controller and Node over one volume group, for the mounted window
   (lvremove and mkfs refuse a mounted device).
7. `Bootstrap.tla` (done): the four `main()`s under a restarting supervisor.
   The CO's timeout is modelled as tonic's cancellation of the handler at
   its await; a late handler finishing after the CO's retry cannot happen,
   so no run looks for one.

## Modules and runs

### Mountd

State: `mtab` (a stack of mounts per directory: `[obj, ro]`, the object
visible there and whether its superblock is read-only), `owner` (uid:gid of
each directory inode and filesystem root), `present`, `lvs`, `link` (symlink
targets), `mreq` (per request slot: the handler's program counter, its
arguments, the answer it read from the mount table, its result).

Actions: `MSnap` (lines 59-62 / 168-171), `MCheck` (64-118), `MSys`
(120-148), `MChown` (150-161), `UCheck` (173-203), `USys` (205-213), and the
caller's `Client`/`Reply`. A handler's steps are the points between system
calls; the policy checks of one handler are one step (they only read).

Runs:

* `mountd_policy` (pass): slot 1 mounts with every path and flag set a local
  caller can send while slot 2 unmounts any path in parallel (`MountReqs`
  names the slots that mount): type, `NoStackedMounts`, `OwnerConfined` under
  every interleaving of a mount's check, mount(2) and chown with a racing
  umount(2). Two mounting slots stack (next run), so the idempotency check
  needs the second slot to be an unmounter.
* `mountd_race` (violation): two mounts of one destination both read the
  mount table before either mounts: `NoStackedMounts` fails.
* `mountd_symlink` (violation): a whitelisted symlink to `/etc`:
  `OwnerConfined` fails.
* `mountd_rochown` (violation): a read-only mount fails at `chown` after
  mounting; its retry answers OK with the mount root's: `OwnedWhenMountOK`.

The inverted read-only test of `ensure_interactable` (lib.rs 50) is
translated as the code has it (`MetaReadOnly` inside `Interactable`). No run
checks it against the spec's policy: it is one predicate, which a unit test
reaches.

Bounds: four directories covering owned / whitelisted / neither / missing,
one volume, one symlink; `MaxStack` caps how many mounts a caller stacks on a
directory (the caller, not mountd, stops). These are the cases the policy
distinguishes; more directories of the same kind add no behaviour.

### Node and NodeLifecycle

`Node.tla` composes the Node handlers with mountd: `M == INSTANCE Mountd`
with one stack level, so a Node request `r` drives mountd slot `r` (the call
`client.mount(...)` is `ToMountd`, its answer `MountdReturns`). State adds
`nreq` (per slot: operation, volume, program counter, status) and the CO's
`co` (the lifecycle state the CO believes), `pend` (the slot it awaits),
`retry` (the operation it owes after an error or timeout) and `timeouts`.

Actions: `NodeStageVolume` (node.rs 67-138: get_lvm_block_path, the path
checks, then mount with `StageFlags`), `NodeUnstageVolume` (140-183),
`NodePublishVolume` (185-223: lookup, `create_dir_all`) and `NodePublishBind`
(225-261: bind mount with `PublishFlags`), `NodeUnpublishVolume` (263-295),
`MountdReturns` (the answer of mountd in each handler; 297-300 is the
best-effort `rmdir` of unpublish), the mountd steps,
and the CO's `CoCall`, `CoTimeout`, `CoReceive`. The CO follows the CSI order
per volume and retries what failed.

`CoTimeout` is the CO's deadline passing. tonic enforces the `grpc-timeout`
the CO sends and drops the handler's future at the await it is suspended
in, so a timed-out handler takes no further step and its answer is never
sent. mountd's handlers have no await: a mountd call either has not been
served and is dropped with the handler, or has begun and runs to its end
first. `CoTimeout` therefore waits until the mountd slot is not in the
middle of a handler, then frees both slots, and the CO owes a retry.

`NodeLifecycle.tla` is the abstract per-volume machine Unstaged -> Staged ->
Published -> Staged -> Unstaged. `LifeOf` maps the mount table onto it:
Published when the staging path carries the volume and the target shows it,
Staged when only the staging path does, Unstaged otherwise. `LifecycleRefined`
is `NodeLifecycle!Spec` under that mapping.

Runs (`MC_Node.tla`: two volumes, each with a staging and a target path, the
second read-only; two request slots):

* `node_protocol` (pass, up to two timeouts): type, `PublishedShowsVolume`,
  `UnstagedNotMounted`, `ReaderOnlyStaysReadOnly`, `LifecycleRefined`, and
  `RetriesConverge` (a call that failed or was cancelled is repeated until
  it succeeds). A cancelled call can leave its work done: a mount made, an
  unmount made without the `rmdir`, a target directory created without the
  bind. The last property rests on mountd answering OK to a mount that is
  already there and to an unmount of a path that is no longer mounted
  (server.rs 112 and 185); its mutant removes the unmount early return.

Fairness: weak fairness on every mountd step, Node step and `CoReceive`. A
tokio task that has started runs to completion, and the CO reads every
answer. Weak fairness also holds on the CO's calls for each volume: kubelet's
reconciler keeps calling until the volume reaches the state it wants.
`CoTimeout` has no fairness.

### Volumed and Controller

`Volumed.tla` is the volume group: `lvs` (records of name, uuid and size)
and `nextUuid`. `FormatResult` is format_logical_volume's answer: NotFound
when the name is gone, otherwise OK; what `mkfs.xfs -f` writes is not
modelled. It defines operators, not actions: LVM serialises commands on a
volume group, so each volumed handler is one atomic step of its caller.
`GetFreeBytes` is `capacity - spare` (floored at 0), as the code computes it,
without subtracting allocated volumes. `CreateFails` is lvcreate's refusal
(name taken, or too few free extents), which `map_lvm_error` reports as
InvalidArgument. `RoundUp` and `Used` are LVM's extent allocation, not code
of this repository, so they are not in the map.

`Controller.tla` has one action per volumed call of a handler:
`CreateCheckCapacity` (controller.rs 253-303: get_free_bytes and the
OutOfRange checks), `CreateLookup` (305-329: reuse, AlreadyExists or
NotFound), `CreateLogicalVolume` (330-342), `CreateFormat` (344-351),
`DeleteLookup` (361-373: by uuid, absent is OK), `DeleteLogicalVolume`
(375-389: by name). The CO creates each name, deletes the id it got back,
`MaxRounds` times, and retries every error. `dels` records the ids it has
asked to delete. `CoTimeout` is the CO's deadline: tonic drops the
handler at the volumed call it awaits. volumed's handlers have no await,
so that call has been made or not, which is a step boundary of the model;
the handler is freed and the CO repeats the call. So two calls of one name
never overlap: the races between handlers come from different names.

Runs (`MC_Controller.tla`: two names of 4 and 2 units, 2-unit extents,
three request slots):

* `controller_retry` (pass, one round, two timeouts, a group of 5 with 1
  spare that holds one of the volumes at a time): type; `CoVolumeExists` (a
  volume the CO holds stays in the group under its name until the CO
  deletes it); `CoFinishes` (retrying converges). lvcreate fails while the
  other name's volume is in the group and is retried until it is deleted; a
  create cancelled after lvcreate is retried and reuses the LV. The sizes
  are whole extents: for other sizes retrying does not converge (next
  runs).
* `controller_race` (violation, one timeout): n1 asks for 3 units, which
  lvcreate rounds to 4, and the group (7, 1 spare) cannot hold both
  volumes. The instance reaches two answers that `AnswersAsSpecified`
  forbids.
  * n2 passes the free-bytes check (which ignores allocated LVs), then
    lvcreate fails as InvalidArgument.
  * A retry of an n1 create cancelled after lvcreate is refused
    AlreadyExists, because the size read back is the rounded one. With a
    group of 9 this is the only violation.
* `controller_livelock` (violation, one timeout, sizes 3 and 2, a group of
  8): `CoFinishes`. After that cancelled create every retry is refused
  AlreadyExists, so the CO never gets n1's volume.

Fairness: weak fairness on every controller step and `CoReceive` (tokio
runs a started request to completion), and on the CO's calls per name (the
provisioner keeps reconciling a claim until it is done). `CHECK_DEADLOCK` is
off because the CO stops after its last round. Each name has at most one call
in a slot (a cancelled call frees its slot), so of the three slots one is
always free.

### ListVolumes

`ListVolumes.tla` instantiates `Volumed` for the group. `GetLvList` is the
group sorted in the order `lvs` reports it (`LvOrder`).
`ListPage(max, start)` translates lines 131-169: the page is `Take` of the
list's head, whatever `start` is, and `next` is `start + max` while that is
below the length of that page (the code measures `lvs.len()` after `take`). `ListVolumesCall` is the handler, with its negative
`max_entries` branch, together with the CO reading the answer: the CO adds
the page's ids to `seen`, then sends `next_token` or stops. `ListVolumesFails`
is `get_lv_list` failing (Internal). `CoCreate` and `CoDelete` are the CO's
other calls changing the group between pages; they set `changed`. A token
is a number; `NoToken` stands for the empty string.

* `listvolumes_paging` (violation): `ListingComplete` says every listing ends
  (`paging ~> done`), and that an OK listing of an unchanged group has seen
  every volume. CSI excuses listings that overlap a change.
  - With any `max_entries` above 0, `start + max_entries` is never below the
    page's length, so `next_token` is always empty. With `max_entries` 1 and
    two volumes the CO gets the first volume and stops. This was checked
    with `MaxEntries` set to `{1}`.
  - With `max_entries` 0, the page holds everything, but `next_token` is
    `"0"`. Each call then returns the same answer, a stuttering step, so the
    listing never ends. This was checked with `MaxEntries` set to `{0}`.
  - With `MaxEntries` set to `{-1, 2}` (one page holds the whole group), the
    property holds, so it is not vacuous.

Fairness is weak fairness on `ListVolumesCall` only: the CO keeps paging,
but volumed is not assumed ever to fail. A forged token's parse error and
the overflow of `start + max_entries` are left out: the CO only sends tokens
the plugin issued, and `max_entries` is an i32.

### Bootstrap

`Bootstrap.tla` models the four `main()`s of a host: volumed, mountd and the
two CSI plugins. For each process, `run` says whether it serves and `sock`
whether its socket file exists. `stops` counts the ends, bounded by
`MaxStops`.
- `StartAuthority` covers the config and volume-group checks, whose early
  returns change nothing, then `UnixListener::bind`. `Binds` is false while
  a file sits at the path.
- `StartPlugin` binds and then awaits `client_injector` (`Connected`). The
  plugin's `expect` panics when its authority is not listening.
- `Interrupt` is SIGINT: the shutdown removes the socket file.
- `Crash` is every other end, which leaves the file: SIGTERM, a kill, a
  panic, or an error out of `serve` that `?` passes up before `remove_file`.

The supervisor (kubelet, systemd) restarts a process that is down, so each
`Start` is weakly fair. A failed bind changes nothing, so it is a stuttering
step, and fairness cannot force it.

* `bootstrap_restart` (violation, two stops): `Recovers` says every process
  that is down serves again later. TLC finds it violated, in two ways:
  - A plugin started before its authority panics with its socket file in
    place.
  - Any process ended by something other than SIGINT leaves its socket
    file, and every restart then fails at bind.

  Scratch variants, not kept in the project, separated the two causes. With
  plugins started only after their authority, `Recovers` is still violated
  through `Crash`. With `Crash` also removed, it holds.
  `CHECK_DEADLOCK` is off: a host with every process down behind a stale
  socket has no step left, and `Recovers` reports it. A reboot clears
  `/run`; that is outside the model.

## Not modelled

GetCapacity, ValidateVolumeCapabilities, Identity, NodeGetInfo,
NodeGetCapabilities: none changes state, and
NodeGetVolumeStats (`todo!()`) is not advertised, so no CO calls it. File
contents, and so what mkfs.xfs -f does to a volume, are left out. The mounted window between stage and
unstage is not in `Controller.tla`. The crash of an
authority process: it holds no state of its own, and its in-flight calls look
to its caller like a timeout, which the CO models cover; what a crash does
to its socket file is in `Bootstrap.tla`. Identity's Probe only reads. It
answers `ready: None` when the free-bytes call fails, which a CSI CO takes
as ready, so it never reports the controller not ready. This is noted here
and not checked: no run is left for it.

The node id that each plugin draws afresh at every start (`Uuid::new_v4`)
is listed as a hazard. A restarted plugin reports another topology than the
volumes created before the restart, but the topology is only read.

Config parsing, the CLI, logging, the protobuf code, the
wording of errors. Glob matching is abstracted to the set of paths it
matches; a malformed glob is a path not in that set.
