---------------------------- MODULE MCDeployment ----------------------------
(* A small instance of Deployment: two machines, three samples. *)
EXTENDS Deployment

CONSTANTS app, migrations, ci

MCSamples == <<app, migrations, ci>>
=============================================================================
