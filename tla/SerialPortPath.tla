--------------------------- MODULE SerialPortPath ---------------------------
(***************************************************************************)
(* The path that a serial transport opens, src/src/serial-port-path.ts,    *)
(* with the opens of RtuTransportService and AsciiTransportService.  A     *)
(* stable link longer than the native limit is opened through an alias: a  *)
(* link to it in a temporary directory that the scope removes.             *)
(*                                                                         *)
(* The opens of a transport share one flight, so at most one is pending.   *)
(* It is detached: it goes on after the scope has closed.  What the link   *)
(* names changes as devices are unplugged and plugged in.                  *)
(***************************************************************************)
CONSTANTS
    Devices,            \* the device paths that the link may name
    LongPaths,          \* those longer than the native limit
    Directories,        \* bound: the temporary directories there can be
    Absent              \* no device, no directory, no alias

VARIABLES
    longLink,           \* the configured path is longer than the limit
    longTemporary,      \* so is a path in the temporary directory
    link,               \* the device that the configured link names
    directory, alias,   \* what serialPortPathScoped keeps
    existing,           \* the temporary directories on disk
    made, late,         \* those ever made, and made after the transport had closed
    target,             \* directory |-> what the link `port` in it names
    opening,            \* the pending open: its next step, or "none"
    opened,             \* the last native open: [path, device]
    closed              \* "open", "transport" or "alias": finalizers that ran

limits == <<longLink, longTemporary>>
disk == <<existing, made, late, target>>
vars == <<limits, link, directory, alias, disk, opening, opened, closed>>

Configured == "configured"      \* the configured link, as a path and as a target
Unopened == [path |-> Absent, device |-> Absent]

Init ==
    /\ longLink \in BOOLEAN
    /\ longTemporary \in BOOLEAN
    /\ link \in Devices
    /\ directory = Absent
    /\ alias = Absent
    /\ existing = {}
    /\ made = {}
    /\ late = {}
    /\ target = [d \in Directories |-> Absent]
    /\ opening = "none"
    /\ opened = Unopened
    /\ closed = "open"

\* The device that a path leads to now.
Device(path) ==
    IF path = Configured \/ target[path] = Configured THEN link ELSE target[path]

NativeOpen(path) ==
    /\ opened' = [path |-> path, device |-> Device(path)]
    /\ opening' = "none"

\* An open of the transport, which the transport refuses once it is closed.
Open ==
    /\ opening = "none"
    /\ closed = "open"
    /\ IF ~longLink THEN NativeOpen(Configured)
       ELSE IF alias # Absent THEN NativeOpen(alias)
       ELSE opening' = "resolving" /\ UNCHANGED opened
    /\ UNCHANGED <<limits, link, directory, alias, disk, closed>>

\* resolveSerialPortPath: a link without a device, and a device path that is too long
\* itself, fail the open.
Resolve ==
    /\ opening = "resolving"
    /\ opening' = IF link \in Devices \ LongPaths THEN "making" ELSE "none"
    /\ UNCHANGED <<limits, link, directory, alias, disk, opened, closed>>

\* mkdtemp; a path in the directory that is too long fails the open after it.
MakeDirectory(d) ==
    /\ opening = "making"
    /\ d \notin made
    /\ made' = made \cup {d}
    /\ late' = IF closed = "open" THEN late ELSE late \cup {d}
    /\ existing' = existing \cup {d}
    /\ directory' = d
    /\ opening' = IF longTemporary THEN "none" ELSE "linking"
    /\ UNCHANGED <<limits, link, alias, target, opened, closed>>

\* Mutant: the alias names the device that was found and not the configured link.
AliasTarget_Resolved == link

\* What the alias names: the configured path, made absolute.
AliasTarget == Configured

Symlink ==
    /\ opening = "linking"
    /\ directory \in existing
    /\ target' = [target EXCEPT ![directory] = AliasTarget]
    /\ alias' = directory
    /\ opened' = [path |-> directory,
                  device |-> IF AliasTarget = Configured THEN link ELSE AliasTarget]
    /\ opening' = "none"
    /\ UNCHANGED <<limits, link, directory, existing, made, late, closed>>

\* symlink() fails, among others because the scope removed the directory before it.
SymlinkFails ==
    /\ opening = "linking"
    /\ opening' = "none"
    /\ UNCHANGED <<limits, link, directory, alias, disk, opened, closed>>

\* The device goes, comes back or is another one; the native handle is lost with it.
Replug ==
    /\ link' \in (Devices \cup {Absent}) \ {link}
    /\ opened' = Unopened
    /\ UNCHANGED <<limits, directory, alias, disk, opening, closed>>

\* The finalizer of the transport, which was added after the one of the alias.
CloseTransport ==
    /\ closed = "open"
    /\ closed' = "transport"
    /\ UNCHANGED <<limits, link, directory, alias, disk, opening, opened>>

\* Mutant: the directory is removed only when the alias in it was made.
Removed_AliasOnly == IF alias = Absent THEN {} ELSE {directory}

\* The directory that the scope removes: the last that was made, with an alias or not.
Removed == IF directory = Absent THEN {} ELSE {directory}

RemoveAlias ==
    /\ closed = "transport"
    /\ closed' = "alias"
    /\ existing' = existing \ Removed
    /\ UNCHANGED <<limits, link, directory, alias, made, late, target, opening, opened>>

Next ==
    \/ Open \/ Resolve \/ Symlink \/ SymlinkFails \/ Replug
    \/ CloseTransport \/ RemoveAlias
    \/ \E d \in Directories : MakeDirectory(d)

-----------------------------------------------------------------------------
(* Properties.                                                             *)

\* Every open reaches the device that the configured link names at that moment, also
\* through an alias that was made for another device, and never with a path that is
\* longer than the native limit.
OpensFollowTheLink ==
    [][(Open \/ Symlink) /\ opening' = "none" =>
         /\ opened'.device = link
         /\ opened'.path = Configured => ~longLink
         /\ opened'.path # Configured => ~longTemporary]_vars

\* What the scope leaves on disk was made after the transport had closed, or replaced
\* by a later open because its alias could not be made.
OnlyReplacedDirectoriesStay ==
    closed = "alias" => existing \subseteq (made \ {directory}) \cup late

=============================================================================
