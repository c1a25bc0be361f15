----------------------------- MODULE MCCluster -----------------------------
(* The pods as one server: how they start on one database and one           *)
(* preferences file, how a pod's client proxy drains, how the front door    *)
(* finds a client's pod, how maintenance is spread over the pods, and how   *)
(* they share the record of the decoders Plex has.                          *)
(* They are looked at one at a time: `part' says which one runs.            *)
EXTENDS PodBoot, ClientProxy, Maintenance, CodecPrefetch, TLC

CONSTANTS arm, amd, amd2

VARIABLE part

\* Three pods with two points each; two of them share a point.
MCReplicas == (1 :> {0, 4}) @@ (2 :> {2, 4}) @@ (3 :> {3, 5})

\* Two pods of one platform and one of another; no item has mp3 audio.
MCPlatformOf == (arm :> "arm64") @@ (amd :> "amd64") @@ (amd2 :> "amd64")
MCCodecs == <<"mp3", "aac">>

mcVars == <<bootVars, proxyVars, maintVars, codecVars, part>>

MCInit ==
  /\ BootInit /\ ProxyInit /\ DoorInit /\ JobInit /\ CodecsInit
  /\ part \in {"boot", "proxy", "door", "maintenance", "codecs"}
  /\ part # "codecs" => lead = arm

Boots == part = "boot" /\ BootNext /\ UNCHANGED <<proxyVars, maintVars, codecVars, part>>
Proxies == part = "proxy" /\ ProxyNext /\ UNCHANGED <<bootVars, maintVars, codecVars, part>>
Routes == part = "door" /\ DoorNext /\ UNCHANGED <<bootVars, proxyVars, job, codecVars, part>>
Maintains == part = "maintenance" /\ JobNext /\ UNCHANGED <<bootVars, proxyVars, codecVars, part>>
FetchesCodecs == part = "codecs" /\ CodecsNext /\ UNCHANGED <<bootVars, proxyVars, maintVars, part>>

MCNext == Boots \/ Proxies \/ Routes \/ Maintains \/ FetchesCodecs

\* A start goes on to its end and the lease holder syncs every minute; the
\* Router's ticker lists for good, and a list that was answered is used;
\* runCodecPrefetch runs until a run leaves nothing to retry.
MCSpec ==
  /\ MCInit /\ [][MCNext]_mcVars
  /\ \A p \in BootPods : WF_bootVars(part = "boot" /\ Start(p))
  /\ WF_bootVars(part = "boot" /\ Sync)
  /\ WF_doorVars(part = "door" /\ RouterRuns)
  /\ \A r \in Requests : WF_doorVars(part = "door" /\ Refresh(r) /\ UNCHANGED req)
  /\ WF_codecVars(part = "codecs" /\ Prefetches)

\* Once pods stop coming and going the Router's ring is the pods that serve,
\* whatever lists were still in hand (router.go refresh, Run).
DoorSettles == <>[](part = "door" => members = serves)

\* In the end Plex has, on the holder's platform and in its build, every decoder
\* that some library item makes it download, whatever the pods wrote over each
\* other's record (prefetch.go Run, codecs.go runCodecPrefetch).
DecodersFetched == <>[](part = "codecs" => DecodersThere)
============================================================================
