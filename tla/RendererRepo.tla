---------------------------- MODULE RendererRepo ----------------------------
(***************************************************************************)
(* Which library the desktop window shows and over which server: the shell *)
(* (apps/electron-client/src/ElectronClientAppShell.tsx) resolves the      *)
(* server's url over IPC, and again after every write of a sync setting,   *)
(* and rendererRepo.ts builds a repo for each new combination of url and   *)
(* root document.  The settings view writes what is resolved.              *)
(*                                                                         *)
(* Builds take as long as a peer takes to answer, resolutions overlap them *)
(* and each other, and the embedded server starts beside the window and    *)
(* restarts under it.  A version stands for the server's port and scheme,  *)
(* a label for everything else a settings write can put into the url.      *)
(***************************************************************************)
EXTENDS Naturals, Sequences, FiniteSets

CONSTANTS MaxServers,  \* starts of the embedded server
          MaxWrites,   \* settings writes that change the url
          MaxSame,     \* settings writes that leave it as it is
          MaxBuilds,   \* repos the window builds
          MaxFaults,   \* failed starts, failed requests, peers that time out
          Imported     \* a root document of another device

ASSUME RepoBounds ==
  /\ {MaxServers, MaxWrites, MaxSame, MaxBuilds, MaxFaults} \subseteq Nat
  /\ Imported > MaxBuilds + 1

Home  == 1             \* the root document of an earlier launch
None  == 0
\* Root documents: Home, those created by build n (n + 1), and Imported.
NoUrls == [server |-> None, label |-> None, resolved |-> FALSE]
Urls(server, label) == [server |-> server, label |-> label, resolved |-> TRUE]
rendererRepoKey(root, urls) == [root |-> root, urls |-> urls]
NoKey == rendererRepoKey(None, NoUrls)

VARIABLES
  server,    \* version of the embedded server, None while it does not run
  starts,    \* starts so far
  toggle,    \* a checkbox waits for the restart's answer
  label,     \* what the settings put into the url
  same,      \* writes that changed nothing
  replies,   \* what the host answered to get-server-info, not yet arrived
  asked,     \* requests the host has not answered
  urls,      \* the shell's syncServerUrls
  stored,    \* the stored root document
  disk,      \* root documents the host's disk, or a remote host, holds
  browser,   \* root documents the window's own storage holds
  stale,     \* urls or the stored root changed since the effect ran
  applied,   \* appliedKeyRef
  generation,
  builds,    \* builds in flight
  repo,      \* the build in use
  open,      \* repos that were built and not shut down
  error,     \* the error screen is shown instead of the app
  faults

host  == <<server, starts, toggle>>
asks  == <<label, same, replies, asked>>
docs  == <<disk, browser>>
shell == <<urls, stored, stale>>
work  == <<applied, generation, builds, repo, open, error>>
repoVars == <<host, asks, docs, shell, work, faults>>

NoRepo == [gen |-> None, key |-> NoKey, attempt |-> 1, step |-> "used"]

\* A launch: of a new installation, of one whose library is on the host's disk,
\* or of one from before the host kept libraries.  The window asks at once.
RepoInit ==
  /\ server = None /\ starts = 0 /\ toggle = FALSE
  /\ label = 0 /\ same = 0 /\ replies = <<>> /\ asked = 1
  /\ urls = NoUrls /\ stale = FALSE
  /\ stored \in {None, Home}
  /\ disk \in SUBSET {Home} /\ browser = {Home} \ disk
  /\ stored = None => disk = {Home}    \* no difference: nothing names it
  /\ applied = NoKey /\ generation = 0 /\ builds = {}
  /\ repo = NoRepo /\ open = {} /\ error = FALSE
  /\ faults = 0

Fault == faults < MaxFaults /\ faults' = faults + 1

-----------------------------------------------------------------------------
(***************************************************************************)
(* The host and the settings                                               *)
(***************************************************************************)

\* The first start, or the one a checkbox asked for, is done.
Started ==
  /\ server = None /\ starts < MaxServers /\ (starts = 0 \/ toggle)
  /\ starts' = starts + 1
  /\ \/ /\ server' = starts'
        /\ UNCHANGED faults
     \/ /\ Fault
        /\ UNCHANGED server
  /\ toggle' = FALSE
  \* Only an answered checkbox writes its setting, and every write resolves.
  /\ asked' = IF toggle /\ server' # None THEN asked + 1 ELSE asked
  /\ UNCHANGED <<label, same, replies, docs, shell, work>>

\* The app is there to press a checkbox in; the server stops at once.
Toggle ==
  /\ repo # NoRepo /\ ~error /\ ~toggle /\ starts \in 1 .. MaxServers - 1
  /\ toggle' = TRUE
  /\ server' = None
  /\ UNCHANGED <<starts, asks, docs, shell, work, faults>>

\* A new device name, mode, remote url or token.
Write ==
  /\ repo # NoRepo /\ ~error /\ label < MaxWrites
  /\ label' = label + 1
  /\ asked' = asked + 1
  /\ UNCHANGED <<host, same, replies, docs, shell, work, faults>>

\* The same setting is written once more.
WriteSame ==
  /\ repo # NoRepo /\ ~error /\ same < MaxSame
  /\ same' = same + 1
  /\ asked' = asked + 1
  /\ UNCHANGED <<host, label, replies, docs, shell, work, faults>>

\* A host's link is pasted into the guest settings: its token is written as a
\* setting, then its root replaces the stored one.
Import ==
  /\ repo # NoRepo /\ ~error /\ stored # Imported
  /\ stored' = Imported
  /\ stale' = TRUE
  /\ asked' = asked + 1
  /\ UNCHANGED <<host, label, same, replies, docs, urls, work, faults>>

\* The other device's document can be had over the urls.
Syncs ==
  /\ stored = Imported /\ server # None
  /\ disk' = disk \cup {Imported}
  /\ UNCHANGED <<host, asks, browser, shell, work, faults>>

-----------------------------------------------------------------------------
(***************************************************************************)
(* Resolving                                                               *)
(***************************************************************************)

getServerInfo ==
  /\ asked > 0
  /\ asked' = asked - 1
  /\ replies' = Append(replies, server)
  /\ UNCHANGED <<host, label, same, docs, shell, work, faults>>

\* A result that says the same keeps the object, and the effect does not run.
resolved ==
  /\ replies # <<>>
  /\ replies' = Tail(replies)
  /\ urls' = Urls(Head(replies), label)
  /\ stale' = (stale \/ urls' # urls)
  /\ UNCHANGED <<host, label, same, asked, docs, stored, work, faults>>

resolveFailed ==
  /\ replies # <<>> /\ Fault
  /\ replies' = Tail(replies)
  /\ error' = (error \/ repo = NoRepo)
  /\ UNCHANGED <<host, label, same, asked, docs, shell, applied, generation,
                 builds, repo, open>>

-----------------------------------------------------------------------------
(***************************************************************************)
(* Building                                                                *)
(***************************************************************************)

RepoOf(b) == <<b.gen, b.attempt>>
Lost(gen) == <<gen, 0>>      \* a running repo that nothing refers to

\* The effect: a combination that is not applied yet is built.
initialize ==
  LET key == rendererRepoKey(stored, urls)
      b == [gen |-> generation + 1, key |-> key, attempt |-> 1, step |-> "find"]
  IN
  /\ stale /\ stale' = FALSE
  /\ \/ /\ applied = key \/ ~urls.resolved
        /\ UNCHANGED work
     \/ /\ applied # key /\ urls.resolved /\ generation < MaxBuilds
        /\ applied' = key
        /\ generation' = b.gen
        /\ builds' = builds \cup {b}
        /\ open' = open \cup {RepoOf(b)}
        /\ UNCHANGED <<repo, error>>
  /\ UNCHANGED <<host, asks, docs, urls, stored, faults>>

Becomes(b, c) == builds' = (builds \ {b}) \cup {c}
Embedded(b) == b.key.urls.server # None
\* Only the repo without a server, and the second attempt, have a storage.
Stores(b) == ~Embedded(b) \/ b.attempt = 2

\* A peer, or its own storage, can answer with the root document.
Has(b) == \/ Stores(b) /\ b.key.root \in browser
          \/ Embedded(b) /\ b.key.urls.server = server /\ b.key.root \in disk

\* Nothing is stored: a root document is created.
\* Mutant: also when the stored one is not found.
create_Fresh(b) ==
  LET root == b.gen + 1 IN
  /\ b.step = "find" /\ (b.key.root = None \/ (Stores(b) /\ ~Has(b)))
  /\ Becomes(b, [b EXCEPT !.key.root = root, !.step = "created"])
  /\ UNCHANGED <<docs, open, faults>>
create(b) ==
  LET root == b.gen + 1 IN
  /\ b.step = "find" /\ b.key.root = None
  /\ Becomes(b, [b EXCEPT !.key.root = root, !.step = "created"])
  /\ disk' = IF Embedded(b) THEN disk \cup {root} ELSE disk
  /\ browser' = IF Embedded(b) THEN browser ELSE browser \cup {root}
  /\ UNCHANGED <<open, faults>>

\* The root document is found.  A repo with a storage announces it to the
\* host, whose disk then holds it too.
find(b) ==
  /\ b.step = "find" /\ b.key.root # None /\ Has(b)
  /\ Becomes(b, [b EXCEPT !.step = "ready"])
  /\ disk' = IF Stores(b) /\ Embedded(b) /\ b.key.urls.server = server
             THEN disk \cup {b.key.root} ELSE disk
  /\ UNCHANGED <<browser, open, faults>>

\* It is not there, or nobody answers in time.  The repo without a storage is
\* shut down for one with the window's own.
legacy(b) ==
  /\ b.step = "find" /\ b.key.root # None /\ ~Stores(b)
  /\ Has(b) => Fault
  /\ ~Has(b) => UNCHANGED faults
  /\ LET c == [b EXCEPT !.attempt = 2]
     IN  Becomes(b, c) /\ open' = (open \ {RepoOf(b)}) \cup {RepoOf(c)}
  /\ UNCHANGED docs

unavailable(b) ==
  /\ b.step = "find" /\ b.key.root # None /\ Stores(b)
  /\ Has(b) => Fault
  /\ ~Has(b) => UNCHANGED faults
  /\ Becomes(b, [b EXCEPT !.step = "unavailable"])
  /\ open' = (open \ {RepoOf(b)}) \cup {Lost(b.gen)}
  /\ UNCHANGED docs

bootstrapRendererRepo(b) ==
  /\ create(b) \/ find(b) \/ legacy(b) \/ unavailable(b)
  /\ UNCHANGED <<host, asks, shell, applied, generation, repo, error>>

\* A build that was superseded meanwhile is dropped.
\* Mutant: whichever build ends last is taken.
superseded_Never(b) == FALSE
superseded(b) == b.gen # generation

Drop(b) ==
  /\ b.step # "find" /\ superseded(b)
  /\ builds' = builds \ {b}
  /\ open' = open \ {RepoOf(b)}
  /\ UNCHANGED <<host, asks, docs, shell, applied, generation, repo, error, faults>>

\* The working repo is kept, or there is none and the error is shown.
Stay(b) ==
  /\ b.step = "unavailable" /\ ~superseded(b)
  /\ builds' = builds \ {b}
  /\ \/ repo # NoRepo /\ applied' = NoKey /\ UNCHANGED error
     \/ repo = NoRepo /\ error' = TRUE /\ UNCHANGED applied
  /\ UNCHANGED <<host, asks, docs, shell, generation, repo, open, faults>>

\* The repo replaces the one in use, which is shut down.  A root that was
\* created is stored, and its key recorded with it.
keyFor(b) == IF b.step = "created" THEN b.key ELSE applied

Use(b) ==
  /\ b.step \in {"created", "ready"} /\ ~superseded(b)
  /\ builds' = builds \ {b}
  /\ repo' = [b EXCEPT !.step = "used"]
  /\ open' = open \ {RepoOf(repo)}
  /\ error' = FALSE
  /\ applied' = keyFor(b)
  /\ stored' = IF b.step = "created" THEN b.key.root ELSE stored
  /\ stale' = (stale \/ b.step = "created")
  /\ UNCHANGED <<host, asks, docs, urls, generation, faults>>

-----------------------------------------------------------------------------
RepoNext == \/ Started \/ Toggle \/ Write \/ WriteSame \/ Import \/ Syncs
        \/ getServerInfo \/ resolved \/ resolveFailed \/ initialize
        \/ \E b \in builds : bootstrapRendererRepo(b) \/ Drop(b) \/ Stay(b) \/ Use(b)

RepoSpec == RepoInit /\ [][RepoNext]_repoVars

-----------------------------------------------------------------------------
Quiet == builds = {} /\ ~stale

\* The window shows the newest combination it built, whichever build ended
\* last, unless that one could not be had: then no combination counts as
\* applied, so that it is tried again.
LatestRepoWins == Quiet /\ repo # NoRepo /\ applied # NoKey => repo.key = applied

\* A window that has a library stays with it: a root document is created only
\* for a new installation, once, and the stored root is replaced only by the
\* user's import.
KeepsLibrary == [][stored # None => stored' \in {stored, Imported}]_stored

\* A repo that was had and replaced, or tried and given up for another, does
\* not keep its sockets: besides the repo in use, only the last attempts of
\* builds that had nothing are left running.
SupersededClosed == Quiet => \A r \in open : r = RepoOf(repo) \/ r = Lost(r[1])

\* "Clearing the key lets the next write to these settings try again."
NextWriteTries ==
  [][resolved /\ applied = NoKey /\ repo # NoRepo => stale']_repoVars
=============================================================================
