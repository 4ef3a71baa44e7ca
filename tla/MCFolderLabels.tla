---------------------------- MODULE MCFolderLabels ----------------------------
(* Instances of FolderLabels for TLC: the inbox, the starred folder, and two   *)
(* custom folders that have the same name under different parents.             *)
EXTENDS FolderLabels, TLC

CONSTANTS fi, fs, fa, fb

FourFolders == (fi :> "inbox" @@ fs :> "starred" @@ fa :> "work" @@ fb :> "work")
SystemLabels == ("inbox" :> "INBOX" @@ "sent" :> "SENT" @@ "starred" :> "STARRED")
=============================================================================
