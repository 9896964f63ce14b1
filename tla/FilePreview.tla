----------------------------- MODULE FilePreview -----------------------------
(***************************************************************************)
(* The preview of the file under the pointer (panels/preview.rs,           *)
(* ui/commands.rs hover_file): a loader thread that waits for the pointer  *)
(* to settle and reads one file at a time, and what it returns meeting a   *)
(* pointer that has moved on.  A preview is named by the file it shows.    *)
(***************************************************************************)
EXTENDS Integers, Sequences

CONSTANTS
  Paths,        \* files of the directory panel
  MaxRequests   \* bound: requests the loader has not read, previews on their way

NoPath == "none"
ASSUME PreviewAssumption == NoPath \notin Paths /\ MaxRequests \in Nat \ {0}

VARIABLES
  preview,     \* panels.files.preview
  hover,       \* file_hover: the path and the preview loaded for it
  loader,      \* none, running, or stopped with the window
  requests, previews,  \* the channels to and from the loader
  loading,     \* the path it holds
  step         \* idle, settling or loading

previewVars == <<preview, hover, loader, requests, previews, loading, step>>

NoHover == [path |-> NoPath, content |-> NoPath]

PreviewInit ==
  /\ preview \in BOOLEAN /\ hover = NoHover /\ loader = "none"
  /\ requests = <<>> /\ previews = <<>> /\ loading = NoPath /\ step = "idle"

PointerFree == loader # "stopped" /\ Len(requests) < MaxRequests

(* hover_file: the first hover starts the loader, which may fail.          *)
Hover(path) ==
  /\ PointerFree /\ preview /\ hover.path # path
  /\ loader' \in (IF loader = "none" THEN {"none", "running"} ELSE {loader})
  /\ requests' = IF loader' = "running" THEN Append(requests, path) ELSE requests
  /\ hover' = [path |-> path, content |-> NoPath]
  /\ UNCHANGED <<preview, previews, loading, step>>

(* The pointer leaves a row, perhaps after it has entered the next one.    *)
Unhover(path) ==
  /\ PointerFree
  /\ hover.path = path /\ hover' = NoHover
  /\ UNCHANGED <<preview, loader, requests, previews, loading, step>>

(* Settings: hovers are not reported any more, or again.                   *)
SetPreview ==
  /\ PointerFree /\ preview' = ~preview
  /\ UNCHANGED <<hover, loader, requests, previews, loading, step>>

(* A preview arrives, for the file hovered now or for an earlier one.      *)
AcceptsAny(path) == TRUE
Accepts(path) == hover.path = path
PreviewArrives ==
  /\ loader # "stopped" /\ previews # <<>>
  /\ previews' = Tail(previews)
  /\ hover' = IF Accepts(Head(previews)) THEN [hover EXCEPT !.content = Head(previews)]
              ELSE hover
  /\ UNCHANGED <<preview, loader, requests, loading, step>>

(* run: a request, then newer ones until the pointer has settled.          *)
Newest(held, newer) == newer
TakeRequest ==
  /\ step \in {"idle", "settling"} /\ requests # <<>>
  /\ requests' = Tail(requests)
  /\ loading' = IF step = "idle" THEN Head(requests) ELSE Newest(loading, Head(requests))
  /\ step' = "settling"
  /\ UNCHANGED <<preview, hover, loader, previews>>

Settle ==
  /\ step = "settling" /\ requests = <<>> /\ loader = "running"
  /\ step' = "loading"
  /\ UNCHANGED <<preview, hover, loader, requests, previews, loading>>

(* load: a file that cannot be shown gives a note, which is a preview too. *)
Load ==
  /\ step = "loading" /\ Len(previews) < MaxRequests
  /\ previews' = Append(previews, loading)
  /\ step' = "idle" /\ loading' = NoPath
  /\ UNCHANGED <<preview, hover, loader, requests>>

(* The window closes; the loader ends after the file it is at.             *)
StopPreviews ==
  /\ loader # "stopped" /\ loader' = "stopped"
  /\ UNCHANGED <<preview, hover, requests, previews, loading, step>>
LoaderEnds ==
  /\ loader = "stopped" /\ requests = <<>> /\ step \in {"idle", "settling"}
  /\ step' = "gone" /\ loading' = NoPath
  /\ UNCHANGED <<preview, hover, loader, requests, previews>>

(* previewable: what floats over the row of a path.                        *)
Window(path) == IF hover.path = path /\ hover.content # NoPath THEN hover.content ELSE "loading"

LoaderStep == TakeRequest \/ Settle \/ Load \/ LoaderEnds
PreviewNext ==
  \/ \E path \in Paths : Hover(path) \/ Unhover(path)
  \/ SetPreview \/ PreviewArrives \/ StopPreviews
  \/ LoaderStep

(* The loader's thread runs and the runtime delivers what it sends.        *)
PreviewFairness == WF_previewVars(LoaderStep) /\ WF_previewVars(PreviewArrives)

(* What floats over a row is that row's file and never the previous one,   *)
(* and a pointer that stays gets its preview, whatever it passed over      *)
(* before (hover_file, Unhover, Preview, run).                             *)
HoverShowsItsFile ==
  /\ [](\A path \in Paths : Window(path) \in {"loading", path})
  /\ \A path \in Paths :
       <>[](hover.path = path /\ loader = "running") => <>[](Window(path) = path)
=============================================================================
