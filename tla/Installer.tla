------------------------------ MODULE Installer ------------------------------
(***************************************************************************)
(* The Zed extension (src/lib.rs at the root of the repository): where it  *)
(* takes the language server from, and how it installs the release it is   *)
(* pinned to.  Zed calls an extension one call at a time, may be killed in *)
(* any of them, and may load an extension with another pin afterwards.     *)
(*                                                                         *)
(* A directory per pinned version holds the checksums and the binary.  A   *)
(* download (external: zed::download_file) writes in place, so what it     *)
(* leaves when it fails or is killed is nothing or a part of the file.     *)
(***************************************************************************)
EXTENDS Naturals, FiniteSets

CONSTANTS
    Pins,      \* the versions SERVER_VERSION is pinned to, over time
    MaxFailures  \* bound: kills, failed steps and spoilt downloads

VARIABLES
    pin,       \* SERVER_VERSION of the extension that is loaded
    held,      \* per version, its directory
    step,      \* where the call is
    answer,    \* what the last call returned
    failures,
    abandoned  \* history: versions a call left with an unverified binary, or
               \* one it had not made executable

installerVars == <<pin, held, step, answer, failures, abandoned>>

Nothing   == [sums |-> "none", binary |-> "none", executable |-> FALSE]
Failed    == [from |-> "failed"]
NoAnswer  == [from |-> "none"]
Installed(v) == [from |-> "release", version |-> v, binary |-> held[v].binary,
                 executable |-> held[v].executable]

Faulty == failures < MaxFailures /\ failures' = failures + 1
Sound  == UNCHANGED failures

InstallerInit ==
    /\ pin \in Pins
    /\ held = [v \in Pins |-> Nothing]
    /\ step = "idle" /\ answer = NoAnswer
    /\ failures = 0 /\ abandoned = {}

Continues(to)   == step' = to /\ UNCHANGED <<answer, abandoned>>
Ends(with) == step' = "idle" /\ answer' = with /\ UNCHANGED abandoned
\* The call ends with a binary in place that is not checked, or cannot run.
Abandons(with) == step' = "idle" /\ answer' = with /\ abandoned' = abandoned \cup {pin}

Leaves(file, state) == held' = [held EXCEPT ![pin][file] = state]
LeavesBinary(state) == held' = [held EXCEPT ![pin].binary = state, ![pin].executable = FALSE]
Whole(dir) == dir.binary = "none" \/ (dir.binary = "published" /\ dir.executable)

\* resolve_binary(): the user's setting, then PATH, then the release.
Resolves ==
    /\ step = "idle"
    /\ \/ Ends([from |-> "settings"])
       \/ Ends([from |-> "path"])
       \/ step' = "look" /\ answer' = NoAnswer /\ UNCHANGED abandoned
    /\ Sound /\ UNCHANGED <<pin, held>>

\* "An existing download is trusted."
Looks ==
    /\ step = "look"
    /\ IF held[pin].binary # "none" THEN Ends(Installed(pin)) ELSE Continues("release")
    /\ Sound /\ UNCHANGED <<pin, held>>

\* github_release_by_tag_name, asset_url: no network, no such release or asset.
FindsRelease ==
    /\ step = "release"
    /\ \/ Continues("sums") /\ Sound
       \/ Ends(Failed) /\ Faulty
    /\ UNCHANGED <<pin, held>>

\* The checksum file may be of a release that has no entry for this platform.
DownloadsSums ==
    /\ step = "sums"
    /\ \/ Leaves("sums", "complete") /\ Continues("binary") /\ Sound
       \/ Leaves("sums", "useless") /\ Continues("binary") /\ Faulty
       \/ UNCHANGED held /\ Ends(Failed) /\ Faulty
       \/ Leaves("sums", "useless") /\ Ends(Failed) /\ Faulty
    /\ UNCHANGED pin

DownloadsBinary ==
    /\ step = "binary"
    /\ \/ LeavesBinary("published") /\ Continues("verify") /\ Sound
       \/ LeavesBinary("spoilt") /\ Continues("verify") /\ Faulty
       \/ UNCHANGED held /\ Ends(Failed) /\ Faulty
       \/ LeavesBinary("spoilt") /\ Abandons(Failed) /\ Faulty
    /\ UNCHANGED pin

\* Mutant: a binary that does not match stays where it is.
VerifiesAndKeeps ==
    /\ step = "verify"
    /\ \/ held[pin].sums # "complete" /\ Abandons(Failed)
       \/ held[pin].sums = "complete" /\ held[pin].binary = "spoilt" /\ Ends(Failed)
       \/ held[pin].sums = "complete" /\ held[pin].binary = "published" /\ Continues("permit")
    /\ Sound /\ UNCHANGED <<pin, held>>

\* verify(): with no published sum there is nothing to compare, and a binary that
\* cannot be read has no sum of its own: either way it stays.  One that does not
\* match is removed, and `let _ =` says nothing where it cannot be.
Verifies ==
    /\ step = "verify"
    /\ \/ /\ held[pin].sums # "complete"
          /\ UNCHANGED held /\ Abandons(Failed) /\ Sound
       \/ /\ held[pin].sums = "complete"
          /\ UNCHANGED held /\ Abandons(Failed) /\ Faulty
       \/ /\ held[pin].sums = "complete" /\ held[pin].binary = "spoilt"
          /\ \/ LeavesBinary("none") /\ Ends(Failed) /\ Sound
             \/ UNCHANGED held /\ Abandons(Failed) /\ Faulty
       \/ /\ held[pin].sums = "complete" /\ held[pin].binary = "published"
          /\ UNCHANGED held /\ Continues("permit") /\ Sound
    /\ UNCHANGED pin

Permits ==
    /\ step = "permit"
    /\ \/ Leaves("executable", TRUE) /\ Continues("clean") /\ Sound
       \/ UNCHANGED held /\ Abandons(Failed) /\ Faulty
    /\ UNCHANGED pin

\* remove_other_versions(), each as far as it can be removed.  This one is whole.
RemovesOthers ==
    /\ step = "clean"
    /\ \E kept \in SUBSET {v \in Pins \ {pin} : held[v] # Nothing} :
          /\ IF kept = {} THEN Sound ELSE Faulty
          /\ held' = [v \in Pins |-> IF v \in kept \cup {pin} THEN held[v] ELSE Nothing]
    /\ step' = "idle" /\ answer' = Installed(pin) /\ abandoned' = abandoned \ {pin}
    /\ UNCHANGED pin

\* Zed is killed; what a download had not yet finished stays.
Killed ==
    /\ step # "idle" /\ Faulty
    /\ \/ UNCHANGED held
       \/ step = "sums" /\ Leaves("sums", "useless")
       \/ step = "binary" /\ LeavesBinary("spoilt")
    /\ IF Whole(held'[pin]) THEN Ends(NoAnswer) ELSE Abandons(NoAnswer)
    /\ UNCHANGED pin

\* Another release of the extension is loaded.
Repins ==
    /\ step = "idle"
    /\ pin' \in Pins \ {pin} /\ answer' = NoAnswer
    /\ UNCHANGED <<held, step, failures, abandoned>>

InstallerNext ==
    \/ Resolves \/ Looks \/ FindsRelease \/ DownloadsSums \/ DownloadsBinary \/ Verifies
    \/ Permits \/ RemovesOthers \/ Killed \/ Repins

InstallerSpec == InstallerInit /\ [][InstallerNext]_installerVars

-----------------------------------------------------------------------------
Runs(a) == a.binary = "published" /\ a.executable

\* "A file that stays becomes the already installed answer on the next launch
\* and would never be checked again" (src/lib.rs, verify): what the extension
\* hands to Zed is the published binary, ready to run, unless the last call that
\* installed that version was stopped with a binary in place that it had not
\* compared, could not discard or could not make executable.  These are all the
\* ways there are: the download cut short, the checksums or the binary not
\* readable, the removal or the permission failing, Zed killed.
LaunchesPublished == answer.from = "release" => Runs(answer) \/ answer.version \in abandoned

\* "An existing download is trusted: it was verified when it was installed"
\* (src/lib.rs:120, install): the binary an answer names without looking further
\* is the published one.  Fails on each of the ways LaunchesPublished names.
TrustedWasVerified == answer.from = "release" => answer.binary = "published"
=============================================================================
