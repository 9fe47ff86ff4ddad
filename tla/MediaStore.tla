----------------------------- MODULE MediaStore -----------------------------
(***************************************************************************)
(* Uploaded images: files on disk, written by the upload middleware before  *)
(* the handler of UploadController runs, MediaFile rows and avatars.        *)
(***************************************************************************)
EXTENDS Handlers

CONSTANTS
  Files,      \* file names, each random and used once
  Uploaders,  \* users
  MediaAdmins,\* those that may delete the files of others
  MaxGallery, \* files of one gallery upload, 10 in the code
  NoFile      \* NULL

ASSUME MediaAssumption ==
  /\ NoFile \notin Files \cup Uploaders /\ MediaAdmins \subseteq Uploaders
  /\ IsFiniteSet(Files) /\ MaxGallery \in Nat

VARIABLES
  disk,    \* files in uploads/
  named,   \* file names given out
  owner,   \* MediaFile.uploadedBy of the file's row, NoFile without one
  avatar,  \* User.avatarUrl
  lost     \* history: files of which a deletion was cut off after the unlink

mediaVars == <<disk, named, owner, avatar, lost, call>>

MediaCalls ==
  {idle} \cup [step : {"check", "avatar", "rows", "clean"}, kind : {"avatar", "blog", "gallery"},
               user : Uploaders, files : SUBSET Files]
         \cup [step : {"unlink", "forget"}, file : Files]

MediaTypeOK ==
  /\ disk \in SUBSET named /\ named \in SUBSET Files
  /\ owner \in [Files -> Uploaders \cup {NoFile}]
  /\ avatar \in [Uploaders -> Files \cup {NoFile}]
  /\ lost \in SUBSET Files
  /\ call \in [Requests -> MediaCalls]

MediaInit ==
  /\ disk = {} /\ named = {} /\ lost = {}
  /\ owner = [f \in Files |-> NoFile] /\ avatar = [u \in Uploaders |-> NoFile]
  /\ call = [r \in Requests |-> idle]
-----------------------------------------------------------------------------
(* The middleware stores the files under new names; the handler starts.     *)
Upload(r, u, kind, F) ==
  /\ F # {} /\ F \cap named = {}
  /\ Cardinality(F) <= IF kind = "gallery" THEN MaxGallery ELSE 1
  /\ disk' = disk \cup F /\ named' = named \cup F
  /\ Start(r, [step |-> "check", kind |-> kind, user |-> u, files |-> F])
  /\ UNCHANGED <<owner, avatar, lost>>

(* validateImageSignature of every file, before anything is recorded.       *)
ValidImages(r) ==
  /\ At(r, "check")
  /\ GoTo(r, IF call[r].kind = "avatar" THEN "avatar" ELSE "rows")
  /\ UNCHANGED <<disk, named, owner, avatar, lost>>

\* Mutant: one bad file of a gallery is removed while the others are recorded.
InvalidImage_Continue(r) ==
  /\ At(r, "check")
  /\ \E f \in call[r].files : disk' = disk \ {f}
  /\ GoTo(r, "rows")
  /\ UNCHANGED <<named, owner, avatar, lost>>

(* One bad signature: all files of the request go, one after the other.     *)
InvalidImage(r) ==
  /\ At(r, "check")
  /\ GoTo(r, "clean")
  /\ UNCHANGED <<disk, named, owner, avatar, lost>>

CleanUp(r, f) ==
  /\ At(r, "clean") /\ f \in call[r].files
  /\ disk' = disk \ {f}
  /\ IF call[r].files = {f} THEN Finish(r)
     ELSE Become(r, [call[r] EXCEPT !.files = @ \ {f}])
  /\ UNCHANGED <<named, owner, avatar, lost>>

(* uploadAvatar: the user first, then the row.                              *)
SetAvatar(r) ==
  /\ At(r, "avatar")
  /\ avatar' = [avatar EXCEPT ![call[r].user] = CHOOSE f \in call[r].files : TRUE]
  /\ GoTo(r, "rows")
  /\ UNCHANGED <<disk, named, owner, lost>>

(* The rows of a gallery are created in parallel: in any order.             *)
RecordFile(r, f) ==
  /\ At(r, "rows") /\ f \in call[r].files
  /\ owner' = [owner EXCEPT ![f] = call[r].user]
  /\ IF call[r].files = {f} THEN Finish(r)
     ELSE Become(r, [call[r] EXCEPT !.files = @ \ {f}])
  /\ UNCHANGED <<disk, named, avatar, lost>>

(* deleteMedia: the owner or an administrator; the file, ...                *)
DeleteMedia(r, u, f) ==
  /\ owner[f] # NoFile
  /\ u = owner[f] \/ u \in MediaAdmins
  /\ Start(r, [step |-> "unlink", file |-> f])
  /\ UNCHANGED <<disk, named, owner, avatar, lost>>

(* ... whose unlink may fail unnoticed, ...                                 *)
Unlink(r) ==
  /\ At(r, "unlink")
  /\ \E D \in {disk, disk \ {call[r].file}} : disk' = D
  /\ GoTo(r, "forget")
  /\ UNCHANGED <<named, owner, avatar, lost>>

(* ... then the row, unless it is gone; the avatar keeps its URL.           *)
ForgetFile(r) ==
  LET f == call[r].file IN
  /\ At(r, "forget") /\ owner[f] # NoFile
  /\ owner' = [owner EXCEPT ![f] = NoFile]
  /\ lost' = lost \ {f}
  /\ Finish(r)
  /\ UNCHANGED <<disk, named, avatar>>

(* A statement throws, or the process dies.                                 *)
MediaFails(r) ==
  /\ ~ At(r, "idle")
  /\ lost' = IF At(r, "forget") THEN lost \cup {call[r].file} ELSE lost
  /\ Finish(r)
  /\ UNCHANGED <<disk, named, owner, avatar>>

MediaNext ==
  \/ \E r \in Requests, u \in Uploaders :
       \/ \E kind \in {"avatar", "blog", "gallery"}, F \in SUBSET Files : Upload(r, u, kind, F)
       \/ \E f \in Files : DeleteMedia(r, u, f)
  \/ \E r \in Requests :
       \/ ValidImages(r) \/ InvalidImage(r) \/ SetAvatar(r) \/ Unlink(r)
       \/ ForgetFile(r) \/ MediaFails(r)
       \/ \E f \in Files : CleanUp(r, f) \/ RecordFile(r, f)

MediaSpec == MediaInit /\ [][MediaNext]_mediaVars
-----------------------------------------------------------------------------
Deleting(f) == \E r \in Requests : At(r, "forget") /\ call[r].file = f

(* A file of the media library is on disk, unless its deletion is between   *)
(* the two halves or was cut off there, whatever uploads were refused or    *)
(* deletions raced.                                                         *)
MediaRowsHaveFiles ==
  \A f \in Files : owner[f] # NoFile => f \in disk \/ f \in lost \/ Deleting(f)
=============================================================================
