------------------------------ MODULE Uploads ------------------------------
(***************************************************************************)
(* Files at Cloudinary and the rows that describe them.  A CV and the      *)
(* video of an answer go straight from the browser to Cloudinary: the      *)
(* server signs a fresh public id, the client uploads, and names the id    *)
(* when it saves; the server asks Cloudinary what is there and writes it   *)
(* down.  An avatar goes through the server, to an id that is the user's.  *)
(* A CV's file is read again when it is parsed.                            *)
(*                                                                         *)
(* One user with one question is enough: no two users' ids meet, for the   *)
(* server makes them from the token's user and checks their prefix, and    *)
(* an answer is found by its question.                                     *)
(***************************************************************************)
EXTENDS Naturals, FiniteSets

CONSTANTS
    CvFiles,      \* public ids that are signed for CVs,
    Videos,       \* and for videos: random, so never one twice
    Clients,      \* requests that are served at the same time
    MaxUploads,   \* the number of uploads: a bound
    Absent

(* A file and its size, against the two limits that the server has for a   *)
(* CV: the row's, and the parser's, a little higher.  The signature says   *)
(* no size; the format it does.                                            *)
Sizes == {"allowed", "larger", "huge"}

File == [number : 1 .. MaxUploads, size : Sizes]

ASSUME UploadsAssumption ==
    /\ CvFiles \cap Videos = {}
    /\ {"avatar", Absent} \cap (CvFiles \cup Videos) = {}
    /\ MaxUploads \in Nat
    /\ Absent \notin File

VARIABLES
    asset,        \* what Cloudinary has under each public id
    uploads,      \* history: the number of uploads, which numbers the files
    signed,       \* the ids that were signed,
    usable,       \* ... less than an hour ago
    running,      \* the session is IN_PROGRESS
    cv,           \* the rows of cvs, by their unique cloudinary_public_id
    answer,       \* the question's row in answers; it keeps the file's URL
    avatarUrl,    \* users.avatar_url: the file of which it is the URL
    parsed,       \* history: the file that each CV's last parse read
    save          \* each client's request that saves something

rows == <<cv, answer, avatarUrl, parsed>>
signatures == <<signed, usable>>
uploadsVars == <<asset, uploads, signatures, running, rows, save>>

-----------------------------------------------------------------------------
Signable == CvFiles \cup Videos

(* Cv.create; isValidVideo *)
ValidCv(file) == file # Absent /\ file.size = "allowed"

IsValidVideo(file) == file # Absent /\ file.size = "allowed"

Idle == [at |-> "idle", id |-> Absent, file |-> Absent]

UploadsInit ==
    /\ asset = [id \in Signable \cup {"avatar"} |-> Absent]
    /\ uploads = 0
    /\ signed = {}
    /\ usable = {}
    /\ running = TRUE
    /\ cv = [id \in CvFiles |-> Absent]
    /\ answer = Absent
    /\ avatarUrl = Absent
    /\ parsed = [id \in CvFiles |-> Absent]
    /\ save = [c \in Clients |-> Idle]

(* Broken forms of definitions below, one plausible bug each; none is used. *)

(* Signed parameters that leave overwrite to its default. *)
Overwritable_Videos == Signable

-----------------------------------------------------------------------------
(* What the signed parameters let a second upload replace: overwrite is    *)
(* signed as false for a video, and not mentioned for a CV, which is true. *)
Overwritable == CvFiles

SignCv(id) ==
    /\ id \in CvFiles \ signed
    /\ signed' = signed \cup {id}
    /\ usable' = usable \cup {id}
    /\ UNCHANGED <<asset, uploads, running, rows, save>>

SignVideo(id) ==
    /\ id \in Videos \ signed
    /\ running
    /\ signed' = signed \cup {id}
    /\ usable' = usable \cup {id}
    /\ UNCHANGED <<asset, uploads, running, rows, save>>

(* Cloudinary refuses a signature that is an hour old. *)
SignatureExpires(id) ==
    /\ id \in usable
    /\ usable' = usable \ {id}
    /\ UNCHANGED <<asset, uploads, signed, running, rows, save>>

(* The browser uploads, once or again. *)
Upload(id, size) ==
    /\ id \in usable
    /\ uploads < MaxUploads
    /\ asset[id] = Absent \/ id \in Overwritable
    /\ uploads' = uploads + 1
    /\ asset' = [asset EXCEPT ![id] = [number |-> uploads + 1, size |-> size]]
    /\ UNCHANGED <<signatures, running, rows, save>>

-----------------------------------------------------------------------------
At(c, at) == save[c].at = at

Stand(c, at, id, file) == save' = [save EXCEPT ![c] = [at |-> at, id |-> id, file |-> file]]

Rest(c) == save' = [save EXCEPT ![c] = Idle]

(* createCvAsync, of any id with the user's prefix. *)
RequestCv(c, id) ==
    /\ At(c, "idle")
    /\ Stand(c, "getFile", id, Absent)
    /\ UNCHANGED <<asset, uploads, signatures, running, rows>>

(* What Cloudinary has, and the entity made from it, which refuses a file  *)
(* that is too large.                                                      *)
GetFile(c) ==
    /\ At(c, "getFile")
    /\ LET file == asset[save[c].id]
       IN  IF ValidCv(file)
           THEN Stand(c, "createCv", save[c].id, file) ELSE Rest(c)
    /\ UNCHANGED <<asset, uploads, signatures, running, rows>>

(* The INSERT; a public id that is there already is a 409. *)
CreateCv(c) ==
    /\ At(c, "createCv")
    /\ cv' = [cv EXCEPT ![save[c].id] = IF @ = Absent THEN save[c].file ELSE @]
    /\ Rest(c)
    /\ UNCHANGED <<asset, uploads, signatures, running, answer, avatarUrl, parsed>>

(* A parse of a CV that is saved.  A file above the parser's limit fails   *)
(* it; the row's limit is not looked at again.                             *)
DownloadFile(id) ==
    /\ cv[id] # Absent
    /\ asset[id] # Absent
    /\ asset[id].size # "huge"
    /\ parsed' = [parsed EXCEPT ![id] = asset[id]]
    /\ UNCHANGED <<asset, uploads, signatures, running, cv, answer, avatarUrl, save>>

(* saveAnswerAsync: the session, the video, and the transaction that looks *)
(* at the session again.                                                   *)
AuthorizeQuestion(c, id) ==
    /\ At(c, "idle")
    /\ running
    /\ Stand(c, "getVideo", id, Absent)
    /\ UNCHANGED <<asset, uploads, signatures, running, rows>>

GetVideo(c) ==
    /\ At(c, "getVideo")
    /\ LET file == asset[save[c].id]
       IN  IF IsValidVideo(file)
           THEN Stand(c, "saveAnswer", save[c].id, file) ELSE Rest(c)
    /\ UNCHANGED <<asset, uploads, signatures, running, rows>>

SaveAnswer(c) ==
    /\ At(c, "saveAnswer")
    /\ answer' = IF running THEN [id |-> save[c].id, file |-> save[c].file] ELSE answer
    /\ Rest(c)
    /\ UNCHANGED <<asset, uploads, signatures, running, cv, avatarUrl, parsed>>

(* updateAvatarAsync, of an image of an allowed type and size: the upload, *)
(* which replaces the last one, then the row.                              *)
UpdateAvatar(c) ==
    /\ At(c, "idle")
    /\ Stand(c, "uploadAvatar", "avatar", Absent)
    /\ UNCHANGED <<asset, uploads, signatures, running, rows>>

UploadAvatar(c) ==
    /\ At(c, "uploadAvatar")
    /\ uploads < MaxUploads
    /\ uploads' = uploads + 1
    /\ LET file == [number |-> uploads + 1, size |-> "allowed"]
       IN  /\ asset' = [asset EXCEPT !["avatar"] = file]
           /\ Stand(c, "saveAvatar", "avatar", file)
    /\ UNCHANGED <<signatures, running, rows>>

UpdateUserAvatarUrl(c) ==
    /\ At(c, "saveAvatar")
    /\ avatarUrl' = save[c].file
    /\ Rest(c)
    /\ UNCHANGED <<asset, uploads, signatures, running, cv, answer, parsed>>

(* The session is submitted. *)
Submit ==
    /\ running
    /\ running' = FALSE
    /\ UNCHANGED <<asset, uploads, signatures, rows, save>>

(* A failed call to Cloudinary or the database, a crash, a lost reply. *)
Fail(c) ==
    /\ ~At(c, "idle")
    /\ Rest(c)
    /\ UNCHANGED <<asset, uploads, signatures, running, rows>>

UploadsNext ==
    \/ \E id \in CvFiles : SignCv(id)
    \/ \E id \in Videos : SignVideo(id)
    \/ \E id \in Signable : SignatureExpires(id)
    \/ \E id \in Signable, size \in Sizes : Upload(id, size)
    \/ \E id \in CvFiles : DownloadFile(id)
    \/ \E c \in Clients :
        \/ \E id \in CvFiles : RequestCv(c, id)
        \/ GetFile(c)
        \/ CreateCv(c)
        \/ \E id \in Videos : AuthorizeQuestion(c, id)
        \/ GetVideo(c)
        \/ SaveAnswer(c)
        \/ UpdateAvatar(c)
        \/ UploadAvatar(c)
        \/ UpdateUserAvatarUrl(c)
        \/ Fail(c)
    \/ Submit

UploadsSpec == UploadsInit /\ [][UploadsNext]_uploadsVars

-----------------------------------------------------------------------------
(* Properties *)

(* Every row's file is there, and the URL and the duration of an answer    *)
(* are those of the video that plays under its id, whatever is uploaded,   *)
(* repeated or saved at the same time.  A CV's and an avatar's file may be *)
(* a later one than the row was written for, never an earlier one, and so  *)
(* may be the file that a CV's parse has read.                             *)
RowsShowTheirFiles ==
    /\ answer # Absent => asset[answer.id] = answer.file
    /\ \A id \in CvFiles : cv[id] # Absent =>
        /\ asset[id] # Absent
        /\ cv[id].number <= asset[id].number
        /\ parsed[id] # Absent => parsed[id].number \in cv[id].number .. asset[id].number
    /\ avatarUrl # Absent =>
        asset["avatar"] # Absent /\ avatarUrl.number <= asset["avatar"].number
=============================================================================
