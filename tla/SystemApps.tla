----------------------------- MODULE SystemApps -----------------------------
(***************************************************************************)
(* The host app and supervisor releases a device should run                *)
(* (src/features/hostapp/hooks/target-hostapp.ts and                       *)
(* src/features/supervisor-app/hooks/supervisor-app.ts), as functions of   *)
(* the catalogue of releases and of rows of the device table.              *)
(*                                                                         *)
(* A version is a number that ranks it.  Of a version that balena-semver   *)
(* cannot parse only that is known.                                        *)
(***************************************************************************)
EXTENDS Integers

CONSTANTS
    Releases,
    Apps,
    Release,   \* [Releases -> the row of the release]
    App,       \* [Apps -> the row of the application]
    CpuArch,   \* [device types -> is_of__cpu_architecture]
    Revision,  \* [versions -> the revision in its build part, or 0]
    Undefined, \* a field that is not given
    Null,
    Unparsable \* a version that balena-semver does not parse

Given(v) == v \notin {Undefined, Null}

(* is final, a computed term of the model.                                 *)
Final(r) == Release[r].revision # Null

(* The first element of S in the descending order Less, one of those that  *)
(* tie, or Null.                                                           *)
Best(S, Less(_, _)) ==
    IF S = {} THEN Null ELSE CHOOSE r \in S : \A q \in S : ~Less(r, q)

(* semver, or the version tag of a release whose semver is 0.0.0.          *)
BaseVersion(r) == IF Release[r].semver = 0 THEN Release[r].tag ELSE Release[r].semver

(* parseOsVariant *)
KnownVariant(v) == v \in {"dev", "prod"}

Parses(v) == Given(v) /\ v # Unparsable

(* normalizeVariantToLongForm *)
LongForm(variant) ==
    CASE variant = "prod" -> "production" [] variant = "dev" -> "development"
      [] OTHER -> variant

(* The order of the query: by semver_major (a release that only its tag    *)
(* gives a version has semver 0), then is_final, then created_at.          *)
OsLess(q, r) ==
    \/ Release[q].semver < Release[r].semver
    \/ /\ Release[q].semver = Release[r].semver
       /\ \/ ~Final(q) /\ Final(r)
          \/ Final(q) = Final(r) /\ Release[q].created < Release[r].created

(* The release is the version: by the semver fields, where a draft has any *)
(* revision, or by the tags of a release that was not migrated to them.    *)
IsOsVersion(r, version, variant) ==
    \/ /\ Release[r].semver = version
       /\ Release[r].revision \in {Revision[version], Null}
       /\ Release[r].variant \in {variant, ""}
    \/ /\ Release[r].tag = version
       /\ Release[r].tagVariant \in {LongForm(variant), Null}

(* getOSReleaseResource *)
OSRelease(type, version, variant) ==
    Best({r \in Releases :
            /\ Release[r].success
            /\ App[Release[r].app].is_host
            /\ App[Release[r].app].type = type
            /\ IsOsVersion(r, version, variant)},
         OsLess)

(* checkHostappReleaseUpgrades: some device has a version that the release *)
(* r may replace.  A device whose version is unknown is not checked.       *)
HostappUpgrade(rows, r, root, invalid) ==
    LET old == {row.os : row \in {x \in rows : Parses(x.os)}}
    IN old # {} =>
         /\ Release[r].success
         /\ root \/ r \notin invalid
         /\ BaseVersion(r) # Null
         /\ \A v \in old : BaseVersion(r) >= v

(* The device has no target, or an older one than the version it runs.     *)
Outdated(row) ==
    /\ Parses(row.os)
    /\ KnownVariant(row.variant)
    /\ \/ row.operated = Null
       \/ BaseVersion(row.operated) = Null
       \/ row.os > BaseVersion(row.operated)

(* Mutant: the target stays if there is no release of the version.         *)
ProgressedTargetIfFound(row) ==
    IF Outdated(row) /\ OSRelease(row.type, row.os, row.variant) # Null
    THEN OSRelease(row.type, row.os, row.variant)
    ELSE row.operated

(* progressTargetOSReleaseIfNewer: the release of the version it runs, or  *)
(* none, becomes the target of a device whose target is outdated.          *)
ProgressedTarget(row) ==
    IF Outdated(row) THEN OSRelease(row.type, row.os, row.variant) ELSE row.operated

-----------------------------------------------------------------------------
(* The order of raw_version: a draft is a prerelease of its version.       *)
RawLess(q, r) ==
    \/ Release[q].semver < Release[r].semver
    \/ /\ Release[q].semver = Release[r].semver
       /\ \/ ~Final(q) /\ Final(r)
          \/ Final(q) /\ Final(r) /\ Release[q].revision < Release[r].revision
          \/ ~Final(q) /\ ~Final(r) /\ Release[q].created < Release[r].created

(* getSupervisorReleaseResource: of the releases with the semver, the last *)
(* revision that is final, or else the last draft.                         *)
SupervisorRelease(version, arch) ==
    Best({r \in Releases :
            /\ Release[r].semver = version
            /\ Release[r].success
            /\ App[Release[r].app].is_supervisor
            /\ CpuArch[App[Release[r].app].type] = arch},
         RawLess)

(* Mutant: the current target is not compared.                             *)
SupervisorUpgradeAny(rows, r, invalid) ==
    (\A row \in rows : row.sv = Null) \/ r \notin invalid

(* checkSupervisorReleaseUpgrades: devices that have not reported a        *)
(* supervisor yet may be given any release.                                *)
SupervisorUpgrade(rows, r, invalid) ==
    \/ \A row \in rows : row.sv = Null
    \/ /\ r \notin invalid
       /\ \A row \in rows : row.managed # Null => ~RawLess(r, row.managed)

(* setSupervisorReleaseResource: what the first report of a supervisor     *)
(* version makes the target of the device.                                 *)
InitialSupervisor(row, version) ==
    IF row.sv # Null THEN Null ELSE SupervisorRelease(version, CpuArch[row.type])

-----------------------------------------------------------------------------
(* The rules of the model (balena.sbvr) on the target releases of a device.*)
TargetRules(row) ==
    /\ row.pin # Null =>
         Release[row.pin].success /\ Release[row.pin].app = row.app
    /\ row.operated # Null =>
         /\ Release[row.operated].success
         /\ App[Release[row.operated].app].is_host
         /\ App[Release[row.operated].app].type = row.type
    /\ row.managed # Null =>
         /\ Release[row.managed].success
         /\ Release[row.managed].semver > 0
         /\ App[Release[row.managed].app].is_supervisor
         /\ CpuArch[App[Release[row.managed].app].type] = CpuArch[row.type]
=============================================================================
