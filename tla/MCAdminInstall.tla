--------------------------- MODULE MCAdminInstall ---------------------------
EXTENDS AdminInstall
=============================================================================
