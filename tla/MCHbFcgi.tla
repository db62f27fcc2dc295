------------------------------ MODULE MCHbFcgi ------------------------------
(* HbFcgi for TLC.  The inputs read at first use all behave alike, so one of *)
(* them stands for the five; the flows use every place the class keeps data  *)
(* in.  Liveness does not depend on the data, so its run has no flows and    *)
(* one request more.                                                         *)
EXTENDS HbFcgi

MCLazy == {"Input"}
MCFlows == {<<"Input", "OutputBuffer">>, <<"Input", "ResponseHeader">>,
            <<"RequestEnvironment", "aTrace">>, <<"aTrace", "OutputBuffer">>,
            <<"RequestEnvironment", "ContentType">>}
MCLimits == {0, 1}

NoFlows == {}
LiveLimits == {0, 2}
=============================================================================
