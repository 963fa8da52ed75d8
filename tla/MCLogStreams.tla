---------------------------- MODULE MCLogStreams ----------------------------
EXTENDS LogStreams, TLC

\* One line of docker output in the first build, none in the second.
Output == "d1" :> 1 @@ "d2" :> 0
=============================================================================
