-------------------------------- MODULE Gltf --------------------------------
(***************************************************************************)
(* glb-info (gltf/gltf.c, gltf/glb-info.util.c): the table of contents of  *)
(* a .glb file, and the glTF document in its JSON chunk, read member by    *)
(* member with the getters of json.c into arrays whose items point into    *)
(* one another.  A file is its size and the fields of its three headers; a *)
(* document is the value json_parse gives for the chunk (JsonText).        *)
(***************************************************************************)
EXTENDS JsonText

CONSTANTS
  GlbFiles,       \* [size, magic, json, bin], a chunk being [length, type]
  GltfDocuments,  \* <<value>>, or <<>> for a chunk json_parse refuses
  StreamReadSize, \* what load_file reads at a time
  StreamMaxSize,  \* and the size past which it gives up
  IndexLimit      \* what a negative index is as a size_t

VARIABLES
  glb,            \* the file
  document_json,  \* its document
  toc,            \* <<>>, or where the two chunks' data start and end
  gltf,           \* the arrays, an item not yet read being <<>>
  member          \* the member of the root that is read, or how it ended

gltfVars == <<glb, document_json, toc, gltf, member>>

HeaderSize == 12        \* sizeof (glb_header)
ChunkHeaderSize == 8    \* sizeof (glb_chunk_header)

ArrayMembers == <<"buffers", "bufferViews", "accessors">>
GltfEnds == {"done", "failed", "crash"}

GltfInit ==
  /\ glb \in GlbFiles /\ document_json \in GltfDocuments
  /\ toc = <<>> /\ gltf = <<>> /\ member = "toc"

-----------------------------------------------------------------------------
(* glb_toc_load_memory.                                                    *)

JsonData == HeaderSize + ChunkHeaderSize
BinData == JsonData + glb.json.length + ChunkHeaderSize

\* Mutant: the second header is not looked for before it is read.
Whole_NoSecondHeader == glb.size >= JsonData /\ glb.size >= BinData + glb.bin.length - ChunkHeaderSize

\* The chunk's length is counted from its header, not from its data.
Whole == /\ glb.size >= JsonData
         /\ glb.size >= BinData
         /\ glb.size >= BinData - ChunkHeaderSize + glb.bin.length

\* load_file: the size is looked at after each read that was full.
LoadFile == glb.size < StreamReadSize * ((StreamMaxSize \div StreamReadSize) + 1)

\* glb_toc_load_file, glb_toc_load_memory, and json_parse of the JSON chunk.
GlbTocLoad ==
  /\ member = "toc"
  /\ IF LoadFile /\ Whole /\ glb.magic = "glTF" /\ glb.json.type = "JSON" /\ glb.bin.type = "BIN"
     THEN /\ toc' = <<[json |-> <<JsonData, JsonData + glb.json.length>>,
                       bin |-> <<BinData, BinData + glb.bin.length>>]>>
          /\ member' = IF document_json = <<>> THEN "crash"
                       ELSE IF TypeOf(document_json[1]) = "object" THEN "asset" ELSE "failed"
     ELSE toc' = toc /\ member' = "failed"
  /\ UNCHANGED <<glb, document_json, gltf>>

-----------------------------------------------------------------------------
(* One item.  A reading gives an item, fails or crashes: a getter of a key *)
(* that is not there reads through NULL, whether it is optional or not.    *)

Item(read) == [outcome |-> "item", item |-> read]
Fails == [outcome |-> "failed"]
Crashes == [outcome |-> "crash"]

Has(object, keys) == keys \subseteq DOMAIN object
IsA(type, object, key) == Getter(Lookup(object, key), type, FALSE).outcome = "value"
IsNumbers(object, keys) == \A key \in keys : IsA("number", object, key)
NumberOr(default, object, key) ==
  LET got_number == Getter(Lookup(object, key), "number", TRUE)
  IN  IF got_number.outcome = "value" THEN got_number.value[1].number ELSE default
IsOptional(object, key) ==
  Getter(Lookup(object, key), "number", TRUE).success

\* A number as size_t, and whether it is an index of an array: _reference_array
\* drops its getter's verdict, so that an index of another type is 0.
AsSize(n) == IF n < 0 THEN IndexLimit ELSE n
IndexOf(object, key) == AsSize(NumberOr(0, object, key))

\* Mutant: the bound is one too many, as in bound_index.
InArray_OffByOne(index, array) == index <= Len(array)

InArray(index, array) == index < Len(array)

References(object, key, array) == InArray(IndexOf(object, key), array)

\* _gltf_read_asset
ReadAsset(asset) ==
  IF ~Has(asset, {"generator", "version"}) THEN Crashes
  ELSE IF IsA("string", asset, "generator") /\ IsA("string", asset, "version")
  THEN Item([generator |-> asset["generator"].string, version |-> asset["version"].string])
  ELSE Fails

\* _gltf_read_buffer
ReadBuffer(buffer) ==
  IF ~Has(buffer, {"byteLength"}) THEN Crashes
  ELSE IF ~IsNumbers(buffer, {"byteLength"}) THEN Fails
  ELSE IF ~Has(buffer, {"uri"}) THEN Crashes
  ELSE IF TypeOf(buffer["uri"]) \in {"string", "null"}
  THEN Item([byte_length |-> AsSize(buffer["byteLength"].number),
             uri |-> IF IsA("string", buffer, "uri") THEN <<buffer["uri"].string>> ELSE <<>>])
  ELSE Fails

\* _gltf_read_buffer_view
ReadBufferView(view) ==
  IF ~Has(view, {"buffer", "byteLength", "byteOffset", "byteStride"}) THEN Crashes
  ELSE IF /\ References(view, "buffer", gltf.buffers)
          /\ IsNumbers(view, {"byteLength"})
          /\ IsOptional(view, "byteOffset") /\ IsOptional(view, "byteStride")
  THEN Item([buffer |-> IndexOf(view, "buffer"), byte_length |-> AsSize(view["byteLength"].number),
             byte_offset |-> AsSize(NumberOr(0, view, "byteOffset")),
             byte_stride |-> AsSize(NumberOr(1, view, "byteStride"))])
  ELSE Fails

\* _validate_component_type, _set_accessor_type
ComponentTypes == {5120, 5121, 5122, 5123, 5125, 5126}
AccessorTypes == ("SCALAR" :> 1) @@ ("VEC2" :> 2) @@ ("VEC3" :> 3) @@ ("VEC4" :> 4)
              @@ ("MAT2" :> 4) @@ ("MAT3" :> 9) @@ ("MAT4" :> 16)

\* _gltf_read_accessor_sparse: the alignment of the accessor is looked at through
\* its buffer view, which is read after it.
ReadSparse(sparse) ==
  LET indices == sparse["indices"].object
      values == sparse["values"].object
  IN  IF ~Has(sparse, {"indices", "values"}) THEN Crashes
      ELSE IF ~IsA("object", sparse, "indices") \/ ~IsA("object", sparse, "values") THEN Fails
      ELSE IF \/ ~Has(sparse, {"count"}) \/ ~Has(values, {"byteOffset", "bufferView"})
              \/ ~Has(indices, {"componentType", "bufferView"})
           THEN Crashes
      ELSE IF /\ IsNumbers(sparse, {"count"}) /\ IsNumbers(values, {"byteOffset"})
              /\ IsNumbers(indices, {"componentType"})
              /\ References(indices, "bufferView", gltf.bufferViews)
              /\ References(values, "bufferView", gltf.bufferViews)
              /\ indices["componentType"].number \in ComponentTypes
           THEN Crashes
      ELSE Fails

\* _gltf_read_accessor
ReadAccessor(accessor) ==
  IF ~Has(accessor, {"sparse"}) THEN Crashes
  ELSE IF IsA("object", accessor, "sparse") THEN ReadSparse(accessor["sparse"].object)
  ELSE IF ~Has(accessor, {"byteOffset", "componentType", "count", "type"}) THEN Crashes
  ELSE IF ~( /\ IsOptional(accessor, "byteOffset") /\ IsNumbers(accessor, {"componentType", "count"})
             /\ IsA("string", accessor, "type")
             /\ accessor["componentType"].number \in ComponentTypes
             /\ accessor["type"].string \in DOMAIN AccessorTypes )
       THEN Fails
  ELSE IF ~Has(accessor, {"bufferView"}) THEN Crashes
  ELSE IF References(accessor, "bufferView", gltf.bufferViews)
  THEN Item([type |-> AccessorTypes[accessor["type"].string],
             component_type |-> accessor["componentType"].number,
             buffer_view |-> IndexOf(accessor, "bufferView"),
             byte_offset |-> AsSize(NumberOr(0, accessor, "byteOffset")),
             count |-> AsSize(accessor["count"].number)])
  ELSE Fails

-----------------------------------------------------------------------------
(* gltf_from_json.                                                         *)

root_object == document_json[1].object

\* _read_array: the items are allocated before they are read.
OpenArray(key) ==
  IF ~Has(root_object, {key}) THEN Crashes
  ELSE IF IsA("array", root_object, key) THEN Item([i \in DOMAIN root_object[key].array |-> <<>>])
  ELSE Fails

\* What comes of a reading, when what it gives is written and read on from there.
Continue(read, written_gltf, next) ==
  /\ IF read.outcome = "item" THEN gltf' = written_gltf /\ member' = next
     ELSE gltf' = gltf /\ member' = read.outcome
  /\ UNCHANGED <<glb, document_json, toc>>

GltfAsset ==
  /\ member = "asset"
  /\ LET read == IF ~Has(root_object, {"asset"}) THEN Crashes
                 ELSE IF IsA("object", root_object, "asset")
                 THEN ReadAsset(root_object["asset"].object) ELSE Fails
         buffers == OpenArray("buffers")
     IN  IF read.outcome = "item"
         THEN Continue(buffers, [asset |-> read.item, buffers |-> buffers.item], "buffers")
         ELSE Continue(read, gltf, member)

Unfilled(key) == {i \in DOMAIN gltf[key] : gltf[key][i] = <<>>}

\* _gltf_read_buffers, _gltf_read_buffer_views, _gltf_read_accessors
ReadItem(key, object) ==
  CASE key = "buffers" -> ReadBuffer(object)
    [] key = "bufferViews" -> ReadBufferView(object)
    [] key = "accessors" -> ReadAccessor(object)

GltfItem(key) ==
  /\ member = key /\ Unfilled(key) # {}
  /\ LET i == Min(Unfilled(key))
         value == root_object[key].array[i]
         read == IF TypeOf(value) = "object" THEN ReadItem(key, value.object) ELSE Fails
     IN  Continue(read, [gltf EXCEPT ![key][i] = <<read.item>>], key)

GltfNextArray(key, next) ==
  /\ member = key /\ Unfilled(key) = {}
  /\ LET array == OpenArray(next) IN Continue(array, (next :> array.item) @@ gltf, next)

GltfDone ==
  /\ member = "accessors" /\ Unfilled("accessors") = {}
  /\ member' = "done" /\ UNCHANGED <<glb, document_json, toc, gltf>>

GltfNext ==
  \/ GlbTocLoad
  \/ GltfAsset
  \/ GltfItem("buffers")
  \/ GltfNextArray("buffers", "bufferViews")
  \/ GltfItem("bufferViews")
  \/ GltfNextArray("bufferViews", "accessors")
  \/ GltfItem("accessors")
  \/ GltfDone

-----------------------------------------------------------------------------
(* Properties.                                                             *)

\* What the author of a document says, in any order: of items and of references.
Says(object, key, type) == key \in DOMAIN object /\ TypeOf(object[key]) = type
Names(object, key, array) ==
  Says(object, key, "number") => object[key].number \in 0..Len(array) - 1
ItemsOf(key) == {root_object[key].array[i] : i \in DOMAIN root_object[key].array}

SoundDocument ==
  /\ document_json # <<>> /\ TypeOf(document_json[1]) = "object"
  /\ Says(root_object, "asset", "object")
  /\ \A key \in {"generator", "version"} : Says(root_object["asset"].object, key, "string")
  /\ \A i \in 1..3 : /\ Says(root_object, ArrayMembers[i], "array")
                     /\ \A v \in ItemsOf(ArrayMembers[i]) : TypeOf(v) = "object"
  /\ \A v \in ItemsOf("buffers") :
       Says(v.object, "byteLength", "number") /\ \E t \in {"string", "null"} : Says(v.object, "uri", t)
  /\ \A v \in ItemsOf("bufferViews") :
       /\ "buffer" \in DOMAIN v.object /\ root_object["buffers"].array # <<>>
       /\ Names(v.object, "buffer", root_object["buffers"].array)
       /\ Says(v.object, "byteLength", "number")
       /\ \A key \in {"byteOffset", "byteStride"} : \E t \in {"number", "null"} : Says(v.object, key, t)
  /\ \A v \in ItemsOf("accessors") :
       /\ {"sparse", "bufferView"} \subseteq DOMAIN v.object /\ ~Says(v.object, "sparse", "object")
       /\ root_object["bufferViews"].array # <<>>
       /\ Names(v.object, "bufferView", root_object["bufferViews"].array)
       /\ Says(v.object, "count", "number") /\ \E t \in {"number", "null"} : Says(v.object, "byteOffset", t)
       /\ Says(v.object, "componentType", "number") /\ v.object["componentType"].number \in ComponentTypes
       /\ Says(v.object, "type", "string") /\ v.object["type"].string \in DOMAIN AccessorTypes

\* glb-info reads exactly the documents that are sound, and then every reference
\* is to the item its number names and within its array.  The JSON chunk of a
\* file that loads lies within it, and so does the other one, but for the length
\* of a header; and a file fails to load for a reason.
GltfIsDocument ==
  /\ member \in GltfEnds /\ toc # <<>> => (member = "done" <=> SoundDocument)
  /\ member = "done" =>
       /\ \A i \in DOMAIN gltf.bufferViews :
            LET named == root_object["bufferViews"].array[i].object
                view == gltf.bufferViews[i][1]
            IN  /\ view.buffer \in 0..Len(gltf.buffers) - 1
                /\ Says(named, "buffer", "number") => view.buffer = named["buffer"].number
       /\ \A i \in DOMAIN gltf.accessors :
            LET named == root_object["accessors"].array[i].object
                accessor == gltf.accessors[i][1]
            IN  /\ accessor.buffer_view \in 0..Len(gltf.bufferViews) - 1
                /\ Says(named, "bufferView", "number") =>
                     accessor.buffer_view = named["bufferView"].number
  /\ toc # <<>> => /\ toc[1].json[2] + ChunkHeaderSize = toc[1].bin[1]
                   /\ toc[1].bin[1] <= glb.size /\ toc[1].bin[2] <= glb.size + ChunkHeaderSize
  /\ member = "failed" /\ toc = <<>> => \/ BinData + glb.bin.length > glb.size
                                        \/ glb.size > StreamMaxSize \/ glb.magic # "glTF"
                                        \/ glb.json.type # "JSON" \/ glb.bin.type # "BIN"
=============================================================================
