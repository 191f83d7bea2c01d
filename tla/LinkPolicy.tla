------------------------------ MODULE LinkPolicy ------------------------------
(***************************************************************************)
(* From a link somebody wrote into a campaign to a download job: how       *)
(* asset_resolver.py spells and classifies it, which links the download    *)
(* tick passes over (scripts/download_enqueue_tick.py and                  *)
(* app/api/campaigns.py), and what the database refuses                    *)
(* (ck_jobs_no_folder_download).  Each of them tests the text of the URL   *)
(* in its own way; a link is modelled by what those tests tell apart.      *)
(***************************************************************************)
EXTENDS Naturals, Sequences

\* A link: the site, the form of its path, whether the path has the u/<n>/ of a
\* browser with several accounts, and whether the id is whole and nothing but a
\* query or a fragment comes after it (the resolver's patterns are anchored).
Link(site, path, user, tidy) == [site |-> site, path |-> path, user |-> user, tidy |-> tidy]

Plain(site, paths) == {Link(site, p, FALSE, TRUE) : p \in paths}

DriveLinks ==
  {Link("drive", p, FALSE, t) : p \in {"file", "open", "uc"}, t \in BOOLEAN}
  \cup {Link("drive", p, u, t) : p \in {"folders", "filefolders"}, u \in BOOLEAN, t \in BOOLEAN}

DocsLinks == {Link("docs", p, u, TRUE) :
                p \in {"document", "presentation", "forms", "drawings", "spreadsheets"},
                u \in BOOLEAN}

\* Dropbox has folders of two forms, /scl/fo/ and, before that, /sh/. TikTok's links
\* to a video have the @handle of its author in them, like those to his profile.
Links ==
  DriveLinks \cup DocsLinks
  \cup Plain("youtube", {"watch", "shorts", "profile"})
  \cup Plain("tiktok", {"video", "profile"})
  \cup Plain("instagram", {"post", "reel", "profile"})
  \cup Plain("dropbox", {"file", "folder", "oldfolder", "pdf"})
  \cup Plain("mega", {"file", "folder"}) \cup Plain("vimeo", {"file"})
  \cup Plain("web", {"media", "pdf", "page"})

-----------------------------------------------------------------------------
\* classify_link: a folder is one only where /drive/ is followed by it at once.
Kind(l) ==
  IF l.site = "drive" /\ l.path \in {"folders", "filefolders"} /\ ~l.user THEN "drive_folder"
  ELSE IF l.site = "docs" THEN IF l.path = "spreadsheets" THEN "googlesheets" ELSE "docs"
  ELSE IF l.site = "dropbox" /\ l.path = "folder" THEN "dropbox_folder"
  ELSE IF l.site \in {"drive", "youtube", "dropbox", "mega"} THEN l.site
  ELSE "external"

\* is_brief_kind
IsBrief(l) == Kind(l) = "docs" \/ l.path = "pdf"

\* Mutant: a preview is stored as it was written.
Canonical_AsWritten(l) ==
  IF l.site # "drive" THEN {l}
  ELSE IF l.path \in {"folders", "filefolders"} /\ l.tidy THEN {}
  ELSE {l}

\* rewrite_drive_url: none for a folder whose id is whole, the download form for a
\* preview, any other link as it is; of open?id= it knows no spelling that exists.
Canonical(l) ==
  IF l.site # "drive" THEN {l}
  ELSE IF l.path \in {"folders", "filefolders"} /\ l.tidy THEN {}
  ELSE IF l.path = "file" /\ l.tidy THEN {[l EXCEPT !.path = "uc"]}
  ELSE {l}

\* docs_export_url: a document opened with a second account has no export.
HasExport(l) == ~l.user

\* extract_pdf_text: the texts of the pages, given by their lengths, are joined by
\* a line break each, so that two empty pages make a text.
PdfHasText(pages) == Len(pages) > 1 \/ \E i \in DOMAIN pages : pages[i] > 0

\* extract_from_url: whether any character comes out of a brief (char_count > 0),
\* given what its server answers: the lengths of its pages, of one page where it is
\* not a PDF. Nothing escapes: what fails is an empty brief.
HasText(l, answer) ==
  /\ answer.ok
  /\ l.path = "document" => HasExport(l)
  /\ IF l.path = "pdf" THEN PdfHasText(answer.pages) ELSE answer.pages[1] > 0

\* The asset type of a resolved link; documents and folders are failed from the
\* start, with skip_download.
Type(l) ==
  IF Kind(l) \in {"docs", "googlesheets"} THEN "document"
  ELSE IF Kind(l) \in {"drive_folder", "dropbox_folder"} THEN "folder"
  ELSE IF IsBrief(l) THEN "brief"
  ELSE "video"

\* resolve_assets_for_campaign: the row of link l, if it gets one. A brief with a
\* single character counts as downloaded.
Resolved(l, answer) ==
  {[link |-> u, kind |-> Kind(u), type |-> Type(u),
    skip |-> Type(u) \in {"document", "folder"},
    status |-> IF IsBrief(u) /\ HasText(u, answer) THEN "downloaded"
               ELSE IF Type(u) \in {"document", "folder"} THEN "failed"
               ELSE "pending"] : u \in Canonical(l)}

\* POST /assets, and the crons that use it, register a link as they find it: as a
\* video, with the kind or without.
Posted(l, kind) ==
  [link |-> l, kind |-> kind, type |-> "video", skip |-> FALSE, status |-> "pending"]

-----------------------------------------------------------------------------
\* _NON_VIDEO_URL_PATTERNS, which _SKIP_URL_PATTERNS of the tick repeats. None of
\* them matches filefolders, a drawing, or a document opened with a second account;
\* the one for profile handles matches every link to TikTok.
LooksLikeNoVideo(l) ==
  \/ l.site = "drive" /\ (l.user \/ l.path \in {"file", "folders"})
  \/ l.site = "docs" /\ l.path # "drawings" /\ ~l.user
  \/ l.site = "youtube" /\ l.path = "profile"
  \/ l.site = "tiktok"

\* _VIDEO_EXTENSIONS and _VIDEO_PATTERNS.
LooksLikeVideo(l) ==
  \/ l.site \in {"youtube", "instagram", "tiktok"} /\ l.path # "profile"
  \/ l.site \in {"drive", "docs", "dropbox", "mega", "vimeo"}
  \/ l.path = "media"

\* _is_real_video_url
RealVideo(l) == LooksLikeVideo(l) /\ ~LooksLikeNoVideo(l)

FolderKinds == {"drive_folder", "dropbox_folder"}

\* _is_skippable
Skippable(row) ==
  \/ row.type = "folder"
  \/ row.skip
  \/ row.kind \in FolderKinds
  \/ LooksLikeNoVideo(row.link)

\* ck_jobs_no_folder_download
Refused(l) == Kind(l) = "dropbox_folder" \/ (l.path = "folders" /\ ~l.user)

\* The tick inserts a download job for the row, and the database takes it.
BecomesJob(row) ==
  /\ row.type # "folder" /\ row.status = "pending"
  /\ ~Skippable(row) /\ RealVideo(row.link)
  /\ ~Refused(row.link)
=============================================================================
