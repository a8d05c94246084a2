--------------------------- MODULE MCArticleEditor ---------------------------
(* ArticleEditor with the one tab of a chief.                              *)
EXTENDS ArticleEditor

CONSTANTS deskTab
Tabs == {deskTab}
=============================================================================
