--------------------------- MODULE InstallerFetch ---------------------------
(***************************************************************************)
(* From GitHub's answer to a running installer (update.rs and              *)
(* windows/update.rs): which release is an update, how a request follows   *)
(* redirects, how the installer is downloaded into the update directory,   *)
(* verified, renamed, kept and launched.  Who may check or install when is *)
(* UpdateProtocol's subject; here one worker works at a time, as there.    *)
(*                                                                         *)
(* A version is its rank.  The bytes of a file are cut (incomplete), good  *)
(* (those the checksum manifest names) or bad; a URL is its host and       *)
(* whether it is the one the release's tag and asset name call for.        *)
(***************************************************************************)
EXTENDS Integers, Sequences, FiniteSets, FiniteSetsExt, SequencesExt

CONSTANTS Versions,       \* ranks of the releases that are ever published
          MaxRedirects,   \* MAX_REDIRECTS
          MaxCached       \* MAX_CACHED_INSTALLERS

NoVersion == 0
Absent == "absent"
Content == {"cut", "good", "bad"}
Cdn == {"objects", "assets"}
Host == {"api", "github", "provider"} \cup Cdn

\* A release's tag, as Version::parse takes it: its rank, or none.
Tag == Versions \cup {NoVersion}

\* What GitHub may answer for the latest release.
\* Its assets: one installer and one checksum file, one of a kind missing or
\* twice, or one of them at another address than the tag calls for.
Release == [tag: Tag, published: BOOLEAN,
            assets: {"pair", "missing", "twice", "elsewhere"}]
\* The lines of a checksum manifest that name a file.
Line == {"ours", "malformed", "foreign"}
Manifests == UNION {[1..n -> Line] : n \in 0..2}

VARIABLES running,     \* the version that runs
          exe,         \* installers of the update directory
          part,        \* partial files of the update directory
          launched,    \* the version whose installer runs, which keeps its file
          pc,          \* what the worker does
          candidate,   \* the version the last check found
          asked,       \* hosts the present request went to
          headers,     \* it still carries its headers
          cancelled    \* the application is ending

vars == <<running, exe, part, launched, pc, candidate, asked, headers, cancelled>>
files == <<exe, part>>
request == <<asked, headers>>

Requesting == {"release", "limits", "checksum", "installer"}
-----------------------------------------------------------------------------
\* required_asset, validate_release_asset_url.
HasPair(r) == r.assets = "pair"
Newer(tag) == tag > running

\* Mutant: any published release is an update.
SelectAny(r) == IF r.published /\ r.tag # running /\ HasPair(r) THEN r.tag ELSE NoVersion
\* select_update: a published, strictly newer release with one asset of each
\* kind at the address its tag calls for.
Select(r) ==
    IF /\ r.published
       /\ Newer(r.tag)
       /\ HasPair(r)
    THEN r.tag ELSE NoVersion

\* parse_checksum_manifest: one well-formed line for the installer's name.
Accepted(manifest) ==
    /\ \A i \in DOMAIN manifest : manifest[i] # "malformed"
    /\ Cardinality({i \in DOMAIN manifest : manifest[i] = "ours"}) = 1

\* redirect_policy_for_host, github_redirect_allowed.
FollowsRedirects(host) == host # "provider"
Allowed(from, to) ==
    CASE from = "api"    -> to = "api"
      [] from = "github" -> to = "github" \/ to \in Cdn
      [] OTHER           -> from \in Cdn /\ to = from

\* cleanup_update_cache: every partial file goes, and every installer that is
\* neither one of the newest nor the one to keep.  A file in use stays.
Newest(c) == {v \in Versions : c[v] # Absent
                 /\ Cardinality({w \in Versions : c[w] # Absent /\ w > v}) < MaxCached}
Cleaned(c, keep) ==
    [v \in Versions |-> IF v \in Newest(c) \cup {keep, launched} THEN c[v] ELSE Absent]
NoPart == [v \in Versions |-> Absent]
-----------------------------------------------------------------------------
Init ==
    /\ running = 1
    /\ exe = NoPart /\ part = NoPart
    /\ launched = NoVersion
    /\ pc = "idle"
    /\ candidate = NoVersion
    /\ asked = <<>> /\ headers = FALSE
    /\ cancelled = FALSE

Ask(step, host, with) ==
    /\ pc' = step
    /\ asked' = <<host>>
    /\ headers' = with

Rest == pc' = "idle" /\ asked' = <<>> /\ headers' = FALSE

\* The worker gives up: the state becomes Failed, which names no candidate.
Abandon ==
    /\ Rest
    /\ candidate' = IF pc = "limits" THEN candidate ELSE NoVersion
    /\ part' = IF pc \in {"installer", "hash"} THEN [part EXCEPT ![candidate] = Absent] ELSE part
    /\ UNCHANGED <<running, exe, launched, cancelled>>

Check ==
    /\ pc = "idle" /\ ~cancelled
    /\ Ask("release", "api", TRUE)
    /\ UNCHANGED <<running, files, launched, candidate, cancelled>>

\* A request with the user's token to a provider, through the same procedure.
FetchLimits ==
    /\ pc = "idle" /\ ~cancelled
    /\ Ask("limits", "provider", TRUE)
    /\ UNCHANGED <<running, files, launched, candidate, cancelled>>

StartInstall ==
    /\ pc = "idle" /\ ~cancelled /\ candidate # NoVersion
    /\ Ask("checksum", "github", FALSE)
    /\ UNCHANGED <<running, files, launched, candidate, cancelled>>

\* Only the download of the installer watches for the end of the application.
Watching == pc = "installer" /\ cancelled

Redirect(to) ==
    /\ pc \in Requesting
    /\ IF /\ FollowsRedirects(Head(asked))
          /\ Allowed(Last(asked), to)
          /\ Len(asked) <= MaxRedirects
          /\ ~Watching
       THEN /\ asked' = Append(asked, to)
            /\ headers' = (headers /\ to = Last(asked))
            /\ UNCHANGED <<running, files, launched, pc, candidate, cancelled>>
       ELSE Abandon

\* No connection, a Location that is no HTTPS address, another status than the
\* caller accepts, a body that is too long.
RequestFails == pc \in Requesting /\ Abandon

ReleaseAnswer(r) ==
    /\ pc = "release"
    /\ Rest
    /\ candidate' = Select(r)
    /\ UNCHANGED <<running, files, launched, cancelled>>

LimitsAnswer ==
    /\ pc = "limits"
    /\ Rest
    /\ UNCHANGED <<running, files, launched, candidate, cancelled>>

\* The manifest is accepted; the cache is cleaned, the partial file created.
ChecksumAnswer(manifest) ==
    /\ pc = "checksum"
    /\ IF Accepted(manifest) /\ ~cancelled
       THEN /\ exe' = Cleaned(exe, NoVersion)
            /\ part' = [NoPart EXCEPT ![candidate] = "cut"]
            /\ Ask("installer", "github", FALSE)
            /\ UNCHANGED <<running, launched, candidate, cancelled>>
       ELSE Abandon

InstallerAnswer ==
    /\ pc = "installer"
    /\ IF cancelled THEN Abandon
       ELSE /\ \E c \in {"good", "bad"} : part' = [part EXCEPT ![candidate] = c]
            /\ pc' = "hash"
            /\ UNCHANGED <<running, exe, launched, candidate, request, cancelled>>

Hash ==
    /\ pc = "hash"
    /\ IF ~cancelled /\ part[candidate] = "good"
       THEN /\ pc' = "swap"
            /\ UNCHANGED <<running, files, launched, candidate, request, cancelled>>
       ELSE Abandon

\* The partial file cannot be read or renamed: it stays until the next cleanup.
FileFails ==
    /\ pc \in {"hash", "swap"}
    /\ Rest
    /\ candidate' = NoVersion
    /\ \/ exe' = exe
       \/ pc = "swap" /\ launched # candidate /\ exe' = [exe EXCEPT ![candidate] = Absent]
    /\ UNCHANGED <<running, part, launched, cancelled>>

Swap ==
    /\ pc = "swap" /\ launched # candidate
    /\ exe' = Cleaned([exe EXCEPT ![candidate] = part[candidate]], candidate)
    /\ part' = NoPart
    /\ pc' = "launch"
    /\ UNCHANGED <<running, launched, candidate, request, cancelled>>

\* Cancelled before the launch gate: the installer is removed again.
Withdraw ==
    /\ pc = "launch" /\ cancelled
    /\ Rest
    /\ exe' = [exe EXCEPT ![candidate] = Absent]
    /\ candidate' = NoVersion
    /\ UNCHANGED <<running, part, launched, cancelled>>

\* launch_installer, under the gate; CreateProcess may fail.
Launch ==
    /\ pc = "launch"
    /\ IF cancelled THEN exe' = exe ELSE exe' = Cleaned(exe, candidate)
    /\ \/ /\ ~cancelled
          /\ launched' = candidate
          /\ pc' = "exiting"
          /\ UNCHANGED <<candidate, request>>
       \/ Rest /\ candidate' = NoVersion /\ UNCHANGED launched
    /\ UNCHANGED <<running, part, cancelled>>

\* The process ends, at any moment; what it had in memory is gone.
End ==
    /\ Rest
    /\ candidate' = NoVersion
    /\ cancelled' = FALSE
    /\ UNCHANGED <<running, files, launched>>

Cancel ==
    /\ ~cancelled
    /\ cancelled' = TRUE
    /\ UNCHANGED <<running, files, launched, pc, candidate, request>>

\* The installer ends: it replaced the program and started it, or it gave up.
InstallerEnds ==
    /\ launched # NoVersion
    /\ pc = "idle"
    /\ launched' = NoVersion
    /\ running' \in {running, launched}
    /\ candidate' = NoVersion
    /\ UNCHANGED <<files, pc, request, cancelled>>

Next ==
    \/ Check \/ FetchLimits \/ StartInstall
    \/ \E to \in Host : Redirect(to)
    \/ RequestFails
    \/ \E r \in Release : ReleaseAnswer(r)
    \/ LimitsAnswer
    \/ \E m \in Manifests : ChecksumAnswer(m)
    \/ InstallerAnswer \/ Hash \/ FileFails \/ Swap \/ Withdraw \/ Launch
    \/ End \/ Cancel \/ InstallerEnds

Spec == Init /\ [][Next]_vars
-----------------------------------------------------------------------------
TypeOK ==
    /\ running \in Versions
    /\ exe \in [Versions -> Content \cup {Absent}]
    /\ part \in [Versions -> Content \cup {Absent}]
    /\ launched \in Versions \cup {NoVersion} /\ candidate \in Versions \cup {NoVersion}
    /\ pc \in Requesting \cup {"idle", "hash", "swap", "launch", "exiting"}
    /\ asked \in BoundedSeq(Host, MaxRedirects + 1)
    /\ headers \in BOOLEAN /\ cancelled \in BOOLEAN

\* No file of the update directory has an installer's name unless its bytes are
\* those its manifest names, whatever a crash, a cancelled download or a file
\* operation that failed left behind (download_installer).
OnlyVerified == \A v \in Versions : exe[v] \in {Absent, "good"}

\* The version that runs never goes back: not through an older release that is
\* published as the latest one, and not through a candidate or an installer
\* that was left when a newer version was installed (select_update).
OnlyForward == [][running' >= running]_vars

\* The update directory keeps the newest installers, the one that is about to be
\* launched, and the one that still runs (cleanup_update_cache).
CacheBounded == Cardinality({v \in Versions : exe[v] # Absent}) <= MaxCached + 2

\* A request leaves the host it was made for only from github.com to one release
\* host and never leaves that one; its headers go to the first host alone
\* (github_redirect_allowed, https_request_to_writer).
Confined ==
    \A i, j \in DOMAIN asked : i < j =>
        /\ asked[i] # asked[j] => asked[i] = "github" /\ asked[j] \in Cdn
        /\ headers => asked[i] = asked[j]
=============================================================================
