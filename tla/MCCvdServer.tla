---------------------------- MODULE MCCvdServer ----------------------------
EXTENDS CvdServer

\* The handlers installed by RequestComponent: version, shutdown and the
\* generic command handler.  rAmbiguous is claimed by two of them;
\* rCommand only by the command handler.
MCCanHandle ==
    [h \in Handlers |-> [r \in Requests |->
        CASE r = "rVersion"   -> h = "hVersion"
          [] r = "rShutdown"  -> h = "hShutdown"
          [] r = "rAmbiguous" -> h \in {"hVersion", "hCommand"}
          [] r = "rCommand"   -> h = "hCommand"]]
=============================================================================
