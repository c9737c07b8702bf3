---------------------------- MODULE DeviceStatus ----------------------------
(***************************************************************************)
(* The computed fields "overall status" and "overall progress" of a device *)
(* (src/features/devices/models/device-additions.ts) over the image        *)
(* installs that its state reports leave behind.  They are two CASE        *)
(* expressions of SQL whose branches have to agree: a reader shows the     *)
(* progress beside the status.                                             *)
(*                                                                         *)
(* What the fields read beside the image installs is the record d: the     *)
(* heartbeat, the VPN connection, whether there ever was a connectivity    *)
(* event, the provisioning state and progress, the download of the host    *)
(* OS, the VPN control variables and the target release.                   *)
(***************************************************************************)
EXTENDS StateReport, Integers, FiniteSetsExt

(* A supervisor reports percentages, and 100 for what is complete          *)
(* (state-patch-utils.ts:226).  The API does not check their range.        *)
ASSUME PercentAssumption ==
    /\ IsFiniteSet(Images)
    /\ \A b \in Reports : \A i \in Reported(b) :
         b.apps[i].progress \in (0 .. 100) \cup {Undefined, Null}

(* The values of the VPN control variable of the device and of its fleet,  *)
(* the BALENA_ name before the RESIN_ one, are already picked; "not set"   *)
(* is the default of the COALESCE.                                         *)
Circumstance ==
    [inactive : BOOLEAN,
     vpn : BOOLEAN,
     heartbeat : {"unknown", "online", "timeout", "offline"},
     contacted : BOOLEAN,
     postProvisioning : BOOLEAN,
     provisioning : {Null, 30},
     osDownload : {Null, 60},
     deviceVpnControl : {"not set", "false"},
     fleetVpnControl : {"not set", "false"},
     target : ReleasesNamed]

IsOverallOffline(d) == ~d.vpn /\ d.heartbeat \in {"offline", "unknown"}

IsPreProvisioning(d) == ~d.vpn /\ ~d.contacted /\ d.heartbeat = "unknown"

VpnControl(d) ==
    IF d.deviceVpnControl # "not set" THEN d.deviceVpnControl ELSE d.fleetVpnControl

IsVpnEnabled(d) == VpnControl(d) # "false"

HasPartialConnectivity(d) ==
    \/ d.heartbeat = "timeout"
    \/ d.vpn /\ d.heartbeat # "online"
    \/ ~d.vpn /\ d.heartbeat = "online" /\ IsVpnEnabled(d)

Rows == {i \in Images : install[i] # None}

Downloading ==
    {i \in Rows : install[i].status = "Downloading" /\ install[i].progress # Null}

OverallStatus(d) ==
    IF d.inactive THEN "inactive"
    ELSE IF d.postProvisioning THEN "post-provisioning"
    ELSE IF IsPreProvisioning(d) THEN "configuring"
    ELSE IF IsOverallOffline(d) THEN "disconnected"
    ELSE IF d.heartbeat \in {"online", "timeout"} /\ d.osDownload # Null
      THEN "updating"
    ELSE IF d.provisioning # Null THEN "configuring"
    ELSE IF d.heartbeat \in {"online", "timeout"} /\ Downloading # {}
      THEN "updating"
    ELSE IF HasPartialConnectivity(d) THEN "reduced-functionality"
    ELSE "operational"

(* As Averaged, but without the installs that are still downloading for    *)
(* another release.                                                        *)
AveragedOfTarget(d) ==
    {i \in Rows : install[i].status # "deleted" /\ install[i].release = d.target}

(* The installs of the target release, and all that are downloading.       *)
Averaged(d) ==
    {i \in Rows : /\ install[i].status # "deleted"
                  /\ \/ install[i].status = "Downloading"
                     \/ install[i].release = d.target}

(* ROUND(AVG(COALESCE(progress, 100))), which is null over no rows.        *)
AverageProgress(rows) ==
    LET n == Cardinality(rows)
        sum == MapThenSumSet(
                 LAMBDA i : IF install[i].progress = Null THEN 100
                            ELSE install[i].progress, rows)
    IN  IF n = 0 THEN Null ELSE (2 * sum + n) \div (2 * n)

OverallProgress(d) ==
    IF d.inactive THEN Null
    ELSE IF d.postProvisioning \/ IsPreProvisioning(d) THEN d.provisioning
    ELSE IF IsOverallOffline(d) THEN Null
    ELSE IF d.osDownload # Null THEN d.osDownload
    ELSE IF d.provisioning # Null THEN d.provisioning
    ELSE IF Downloading # {} THEN AverageProgress(Averaged(d))
    ELSE Null

(* Whatever its reports have left in its image installs, the progress of a *)
(* device fits its status: a device that is shown as updating has a        *)
(* progress, one that is operational, disconnected or inactive has none,   *)
(* and while it is configured the progress is that of its provisioning, or *)
(* of a download of the host OS if the heartbeat is lost: the progress     *)
(* does not ask for the heartbeat as the status does.                      *)
ProgressFitsStatus ==
    (\A t \in Requests : request[t].pc = "idle") =>
       \A d \in Circumstance :
         LET progress == OverallProgress(d)
         IN  CASE OverallStatus(d) = "updating" -> progress \in 0 .. 100
               [] OverallStatus(d) \in {"operational", "disconnected", "inactive"} ->
                    progress = Null
               [] OverallStatus(d) = "configuring" ->
                    \/ progress = d.provisioning
                    \/ d.heartbeat \in {"offline", "unknown"} /\ progress = d.osDownload
               [] OverallStatus(d) = "post-provisioning" -> progress = d.provisioning
               [] OTHER -> TRUE
=============================================================================
