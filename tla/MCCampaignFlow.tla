---------------------------- MODULE MCCampaignFlow ----------------------------
(* Three cards of one name, the third of which the database refuses. The first *)
(* links the same film twice, as a preview (view) and by a download URL that   *)
(* is not the canonical one (raw), and a folder with it (film); a request asks *)
(* for that card alone. The cards do not change, so that a discovery rewrites  *)
(* source_metadata when brief-reader has written its own asset_links there.    *)
EXTENDS CampaignFlow

CONSTANTS base, film, raw, view, folder

MCListings == {Cards}
MCShortlists == {{1}}
MCBase == [c \in Cards |-> base]
MCCardLinks == [c \in Cards |-> IF c = 1 THEN {view, raw, folder} ELSE {}]
MCDriveFiles == [c \in Cards |-> IF c = 1 THEN {film} ELSE {}]
MCOutcomes == [c \in Cards |-> IF c = 1 THEN {"briefed", "assets_resolved", "failed_resolve"}
                                ELSE {"failed_brief", "assets_resolved"}]
MCCanon == [l \in Links |-> IF l = view THEN film ELSE l]
MCFileOf == [l \in Links |-> IF l = folder THEN folder ELSE film]
=============================================================================
