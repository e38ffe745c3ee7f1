------------------------------- MODULE MCBuild -------------------------------
(* Instances of Build for TLC.                                               *)
EXTENDS Build, TLC

MCContexts == {"context"}
MCUploads == {"client"}
MCUploadOf == [u \in MCUploads |-> "context"]

\* A Dockerfile made into a SIF file, and a Docker image
MCSpecification ==
    ("recipe" :> [sourceType |-> "context", context |-> "context", version |-> "1",
                  format |-> "sif", cacheKey |-> "recipe"]) @@
    ("image" :> [sourceType |-> "docker-image", context |-> "context", version |-> "2",
                 format |-> "sif", cacheKey |-> "image"]) @@
    ("again" :> [sourceType |-> "docker-image", context |-> "context", version |-> "2",
                 format |-> "oci", cacheKey |-> "image"])
MCBuilds == DOMAIN MCSpecification

\* Two runs of the context, one of the image
MCBuildOf == "run" :> "recipe" @@ "rerun" :> "recipe" @@ "pull" :> "image"
==============================================================================
