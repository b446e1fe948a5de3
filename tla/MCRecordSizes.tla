---------------------------- MODULE MCRecordSizes ----------------------------
(* The sizes in README.md; boost is left out, the length of the header of its *)
(* archives being nowhere in the code.                                         *)
EXTENDS RecordSizes

MCPublished ==
  "thrift-binary" :> 17017 @@ "thrift-compact" :> 13378 @@ "protobuf" :> 16116 @@
  "msgpack" :> 13402 @@ "cereal" :> 17416 @@ "avro" :> 16384 @@ "yas" :> 17416 @@
  "yas-compact" :> 13321 @@ "capnproto" :> 17768 @@ "flatbuffers" :> 17632
=============================================================================
