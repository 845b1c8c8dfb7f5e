------------------------------ MODULE EdgeImage ------------------------------
(***************************************************************************)
(* `plural edge image`: a cloud configuration with a token of its own is   *)
(* written next to the image, the root filesystem is unpacked into a       *)
(* docker volume, and the image is built from both.  The volume has one    *)
(* name for every run and docker takes one that is there; what a run       *)
(* leaves behind is removed when it ends, unless it is killed.             *)
(***************************************************************************)
EXTENDS Services

\* A run is known by the number of its command.
VARIABLES
    cloudConfig, \* cloud-config.yaml: the run whose token it has, 0 if the
                 \* user wrote it
    volume,      \* the volume edge-rootfs: the runs that unpacked into it
    build,       \* kairos.img in the build directory
    image        \* kairos.img in the output directory

edge == <<cloudConfig, volume, build, image>>

Run   == 1..MaxCommands
Image == [config : {0} \union Run, root : SUBSET Run]

EdgeTypeOK ==
    /\ cloudConfig \in {Absent, Torn} \union File({0} \union Run)
    /\ volume \in {Absent} \union File(SUBSET Run)
    /\ build \in {Absent, Torn} \union File(Image)
    /\ image \in {Absent, Torn} \union File(Image)

NoEdge == <<Absent, Absent, Absent, Absent>>

\* the configuration this run writes: the user's own with --cloud-config
Written == IF "cloud-config" \in cmd.set THEN 0 ELSE started

-----------------------------------------------------------------------------

\* mutant: a configuration that is there is kept
ConfigKept ==
    \/ /\ At("cloud config") /\ cloudConfig.is = "file"
       /\ Goto("volume") /\ UNCHANGED <<files, onConsole, edge>>
    \/ /\ At("cloud config") /\ cloudConfig.is # "file"
       /\ cloudConfig' = Torn /\ Goto("configuring")
       /\ UNCHANGED <<files, onConsole, volume, build, image>>
    \/ /\ At("configuring") /\ cloudConfig' = Holding(Written) /\ Goto("volume")
       /\ UNCHANGED <<files, onConsole, volume, build, image>>

\* writeCloudConfig: a new bootstrap token for every run, then the file
WriteCloudConfig ==
    /\ UNCHANGED <<files, onConsole, volume, build, image>>
    /\ \/ At("cloud config") /\ cloudConfig' = Torn /\ Goto("configuring")
       \/ At("configuring") /\ cloudConfig' = Holding(Written) /\ Goto("volume")

\* docker volume create: no error if it is there
CreateVolume ==
    /\ At("volume") /\ Goto("unpack")
    /\ volume' = IF volume = Absent THEN Holding({}) ELSE volume
    /\ UNCHANGED <<files, onConsole, cloudConfig, build, image>>

\* the bundles and the image's files, over those that are in the volume
Unpack ==
    /\ At("unpack") /\ Goto("build image")
    /\ volume' = [volume EXCEPT !.has = @ \union {started}]
    /\ UNCHANGED <<files, onConsole, cloudConfig, build, image>>

BuildImage ==
    /\ UNCHANGED <<files, onConsole, cloudConfig, volume, image>>
    /\ \/ At("build image") /\ build' = Torn /\ Goto("building")
       \/ /\ At("building") /\ Goto("save image")
          /\ build' = Holding([config |-> cloudConfig.has, root |-> volume.has])

\* the deferred removals, from the place each of them was registered; the
\* error of docker volume rm is not looked at
CleanUp ==
    /\ End /\ build' = Absent
    /\ IF cmd.at \in {"cloud config", "configuring", "volume"} THEN UNCHANGED volume
       ELSE volume' \in {Absent, volume}

\* CopyDir, which prints what it could not copy and succeeds
SaveImage ==
    /\ UNCHANGED <<files, onConsole, cloudConfig>>
    /\ \/ At("save image") /\ image' = Torn /\ Goto("copy image")
          /\ UNCHANGED <<volume, build>>
       \/ At("save image") /\ CleanUp /\ UNCHANGED image
       \/ At("copy image") /\ CleanUp /\ image' \in {build, image}

\* an error after the directories were made
FailImage ==
    /\ At("cloud config") \/ At("configuring") \/ At("volume") \/ At("unpack")
         \/ At("build image") \/ At("building")
    /\ CleanUp
    /\ UNCHANGED <<files, onConsole, cloudConfig, image>>

StartEdge ==
    \E set \in SUBSET {"cloud-config"} :
        Start(ConsoleCommand("edge image", "connect", OwnConsole, set))

EdgeNext ==
    WriteCloudConfig \/ CreateVolume \/ Unpack \/ BuildImage \/ SaveImage \/ FailImage

-----------------------------------------------------------------------------
(* Properties                                                              *)

\* Whatever earlier runs left in the output directory and in the volume, an
\* image that is saved has the cloud configuration of the run that saves it,
\* and so a token of that run's, and all that run unpacked.
ImageIsOfItsRun ==
    [][image' # image /\ image'.is = "file" =>
         /\ image'.has.config = Written
         /\ started \in image'.has.root]_image
=============================================================================
