# A TLA+ model of libjpeg-turbo

This directory holds TLA+ modules that model the JPEG library in this repository
(libjpeg-turbo: the libjpeg API with its controllers, entropy coders, transforms and
quantizers, the TurboJPEG API on top of it and its Java binding, `jpegtran`'s lossless
transformations, the detection of SIMD instructions, the programs and the files they read
and write), TLC configurations that check them on
small instances, and proofs that TLAPS checks for all instances.

The library is sequential C, but for the detection of SIMD instructions, whose
result all threads share.  What makes it hard is elsewhere: it is a set of
controllers that call each other through function pointers, keep a dozen counters
each, and must give control back to the application in the middle of nearly
everything - when the data source runs dry, when the destination's buffer is full,
when the application's own buffer is full - and take it up again in a later call
as if nothing had happened.  The application may drive input and output in nearly
any order.  The modules of the controllers follow this: they model all of the
control (counters, buffers, pointer lists, states, early returns, errors), and
abstract the data (a row of samples is worth its number, a block its position, a
Huffman table what it was made for).  The modules below them model what becomes of
the data, each against a definition of what the result is to be.

1. [The system](#1-the-system)
2. [Modules](#2-modules)
3. [Runs, bounds and fairness](#3-runs-bounds-and-fairness)
4. [Proofs](#4-proofs)
5. [Disagreements found](#5-disagreements-found)
6. [What is not modelled](#6-what-is-not-modelled)
7. [Plan](#7-plan)

To check everything: `tlc -config <cfg> <module>` for each run of section 3,
and `tlapm` for each of `MemoryProofs`, `DecompRowsProofs`, `CompRowsProofs`,
`CompPassesProofs`, `TurboJPEGProofs`, `SimdProofs`, `DecompAPIProofs` and
`TransformProofs`.


## 1. The system

### Objects and how they interact

A `jpeg_decompress_struct` owns these controllers, called from top to bottom;
each is a struct of function pointers that the pass setup exchanges.

| Component (source) | State it keeps | Operations |
|---|---|---|
| API (`jdapimin.c`, `jdapistd.c`, `jdtrans.c`) | `global_state`, `output_scanline`, `output_scan_number` | `jpeg_read_header`, `jpeg_consume_input`, `jpeg_start_decompress`, `jpeg_start_output`, `jpeg_read_scanlines`, `jpeg_skip_scanlines`, `jpeg_read_raw_data`, `jpeg_finish_output`, `jpeg_finish_decompress`, `jpeg_read_coefficients`, `jpeg_abort` |
| Master (`jdmaster.c`) | `is_dummy_pass`, `pass_number`, choice of quantizer | `prepare_for_output_pass`, `finish_output_pass` |
| Input controller (`jdinput.c`) | `consume_input` (a method), `inheaders`, `eoi_reached`, `has_multiple_scans`, `input_scan_number`, `input_iMCU_row` | `consume_markers`, `start_input_pass`, `finish_input_pass`, `reset_input_controller` |
| Marker reader (`jdmarker.c`) | `unread_marker`, `next_restart_num`, `saw_SOI/SOF`, saved markers, `bytes_read` | `read_markers`, `read_restart_marker`, `resync_to_restart` |
| Entropy decoders (`jdhuff.c`, `jdphuff.c`, `jdarith.c`) | bit buffer, DC predictions, EOB run, `restarts_to_go`, `insufficient_data` | `start_pass`, `decode_mcu` |
| Coefficient controller (`jdcoefct.c`) | `MCU_ctr`, `MCU_vert_offset`, coefficient arrays, latched bits for smoothing | `consume_data`, `decompress_onepass`, `decompress_data`, `decompress_smooth_data` |
| Main controller (`jdmainct.c`) | an iMCU row, two lists of row pointers, `whichptr`, `context_state`, `rowgroup_ctr`, `rowgroups_avail`, `iMCU_row_ctr` | `process_data_simple_main`, `_context_main`, `_crank_post` |
| Postprocessor (`jdpostct.c`) | strip buffer or whole image, `starting_row`, `next_row` | `post_process_1pass`, `_prepass`, `_2pass` |
| Upsamplers (`jdsample.c`, `jdmerge.c`) | conversion buffer, `next_row_out`, `rows_to_go`, spare row | `sep_upsample`, `merged_1v_upsample`, `merged_2v_upsample` |
| Color conversion, inverse DCT (`jdcolor.c`, `jdmerge.c`, `jddctmgr.c`, `jidct*.c`) | tables of multipliers | row and block arithmetic |
| Quantizers (`jquant1.c`, `jquant2.c`) | colormaps, indexes, histogram or inverse colormap, error rows | `start_pass`, `color_quantize`, `prescan`, `finish_pass`, `new_color_map` |
| Source manager (`jdatasrc.c`, or the application's) | `next_input_byte`, `bytes_in_buffer` | `fill_input_buffer`, `skip_input_data`, `term_source` |

A `jpeg_compress_struct` mirrors it.

| Component (source) | State it keeps | Operations |
|---|---|---|
| API (`jcapimin.c`, `jcapistd.c`, `jctrans.c`) | `global_state`, `next_scanline` | `jpeg_start_compress`, `jpeg_write_scanlines`, `jpeg_write_marker`, `jpeg_write_coefficients`, `jpeg_finish_compress`, `jpeg_abort_compress` |
| Master (`jcmaster.c`) | `pass_type`, `pass_number`, `scan_number`, `call_pass_startup`, `is_last_pass` | `prepare_for_pass`, `pass_startup`, `finish_pass`, `select_scan_parameters`, `per_scan_setup` |
| Main controller (`jcmainct.c`) | an iMCU row, `rowgroup_ctr`, `cur_iMCU_row`, `suspended` | `process_data_simple_main` |
| Preprocessor (`jcprepct.c`) | conversion buffer, `rows_to_go`, `next_buf_row`, `this_row_group`, `next_buf_stop` | `pre_process_data`, `pre_process_context` |
| Downsampler (`jcsample.c`) | none | `sep_downsample` |
| Coefficient controllers (`jccoefct.c`, `jctrans.c`) | `iMCU_row_num`, `mcu_ctr`, `MCU_vert_offset`, coefficient arrays | `compress_data`, `compress_first_pass`, `compress_output` (twice) |
| Entropy encoders (`jchuff.c`, `jcphuff.c`, `jcarith.c`) | tables, statistics, EOB run, bit buffer | `start_pass`, `encode_mcu`, `finish_pass` |
| Marker writer (`jcmarker.c`) | `last_restart_interval`, `sent_table` of each table | `write_file_header`, `write_frame_header`, `write_scan_header`, `write_file_trailer` |
| Destination manager (`jdatadst.c`, or the application's) | `next_output_byte`, `free_in_buffer` | `empty_output_buffer`, `term_destination` |

Both use the memory manager (`jmemmgr.c`: pools, and virtual arrays with a
window in memory over a backing store) and the error manager (`jerror.c`: an
error leaves the library with a long jump).  `transupp.c` works on coefficient
arrays between a decompressor and a compressor.  `turbojpeg.c` makes one
function call of whole sequences of these, with `setjmp` around them, and
`turbojpeg-jni.c` makes those calls for Java, on arrays that the virtual machine lends.
`cjpeg`, `djpeg` and `jpegtran` set the parameters of the objects from a command line, which
they read once before they know the file and again when they do;  `rdjpgcom` and `wrjpgcom`
read and copy headers without the library.  Where an
object is set up, `simd/<architecture>/jsimd.c` is asked whether there is a version of
a routine that the processor can run.

### What is hard

* **Suspension.**  Any call may return in the middle; the state in which it
  leaves the controllers is what the next call, not necessarily of the same
  function, finds.
* **Interleaving of input and output.**  In buffered-image mode the application
  alternates `jpeg_consume_input`, output passes and their ends at will, while
  both sides look at the same coefficient arrays.
* **Edges.**  Images end anywhere in a row group, an MCU or an iMCU row, and each
  controller pads, cuts or duplicates in its own way; the counters of a dozen
  loops must agree about it.
* **Long-lived objects.**  An object is used for image after image; tables,
  flags and buffers outlive the image they were made for.
* **Sharing in place.**  `tjTransform` makes several results of one source, some
  of them in the source's own arrays.
* **Two sides that must agree.**  What an encoder gathers in one pass it writes in
  another; what it writes a decoder of a quite different shape reads; a block is
  transformed forth and back, a color converted forth and back, in integers.
* **A lock that is not there.**  Threads set the static variables of the SIMD code
  without one.

`PROJECT.json` lists these hazards one by one, each at its line, with the
properties that watch over it.

### What makes each component correct

| Component | Correct if |
|---|---|
| Virtual arrays | a client cannot tell the array from one wholly in memory |
| Decompressor's API, input and master | a pass shows rows of the scan asked for or a later one; the last pass shows the last scan; every call returns; a suspended call gets through; finishing has read all data |
| Main controller, upsamplers, postprocessor, reading and skipping | the application gets the lines of the image in order, each made from the right sample rows |
| Writing, preprocessor, main controller | every iMCU row is compressed once, in order, from the right lines, and before the application is told that its last line was taken |
| Compressor's passes | the datastream has each scan once and complete; it is coded with tables that have the codes and that the decoder was told |
| Transformations | each result is, sample by sample, the part of the source asked for, turned as asked |
| Marker reader, bit buffer | what is read does not depend on where the source suspends; no marker is overrun; after damage to a scan it finds back into step |
| Entropy coders | what is decoded is what was encoded, wherever the data are cut; what is written was counted; no buffer overflows |
| Transforms | an inverse DCT is the cosine transform, a block comes back but for its quantization |
| Colors, quantizers | colors come back; two ways to compute a pixel agree; a pixel gets the nearest color, or keeps the brightness of its surroundings; what is kept from pass to pass does not show |
| TurboJPEG | a call answers as a new instance would, whatever failed before; buffers are neither lost nor freed too early |
| SIMD detection | nothing is run that the processor does not have |
| Headers, ICC profiles, image files | what is written is read again, whichever program or call does either; what cannot be is refused, not read as something else |
| Java binding | whatever fails, what was lent is given back, once, and an exception is left; nothing outside of an array is touched |
| Programs | the parameters are those that the command line asks for, in whatever order |


## 2. Modules

| Module | Models | Composes |
|---|---|---|
| `VirtArray` | one virtual array of `jmemmgr.c` | refines `PlainArray` |
| `PlainArray` | *abstract:* an array that keeps what is written to it | |
| `DecompAPI` | every call of the decompressor that changes `global_state`, master, both sides of the coefficient controller, the input controller | |
| `DecompRows` | main controller, upsamplers, postprocessor, `jpeg_read_scanlines`, `jpeg_skip_scanlines`, row by row | refines `ScanlineReader` |
| `ScanlineReader` | *abstract:* lines come in order | |
| `CompRows` | `jpeg_write_scanlines`, main controller, preprocessor, downsampler, row by row | refines `ScanlineWriter` |
| `ScanlineWriter` | *abstract:* iMCU rows are compressed in order, all before the last line is acknowledged | |
| `CompPasses` | start, markers, passes, finish, abort; coefficient controllers; Huffman tables; headers | refines `Datastream` |
| `Datastream` | *abstract:* header, markers, frame, scans, trailer | |
| `MarkerReader` | `jdmarker.c`, the bit buffer and restarts of `jdhuff.c`, a source of bytes | |
| `Transform` | `transupp.c`, and `tjTransform` over it | |
| `CodedData` | what passes from an entropy encoder to a decoder | |
| `HuffmanCoding` | the MCUs of `jchuff.c`, `jcphuff.c`, `jdhuff.c`, `jdphuff.c`; the making of Huffman tables, and what both coders derive from them | extends `CodedData` |
| `ArithCoding` | the decisions and the registers of `jcarith.c` and `jdarith.c` | extend `CodedData` |
| `Entropy` | an image through its scans: statistics, coding, decoding; `validate_script` | extends the three before |
| `TurboJPEG` | the calls of an instance, what is left by one that fails, the buffers of results | |
| `Simd` | detection on seven architectures, and the choice of every routine's version | |
| `Dct` | the integer transforms, divisors and multipliers; *abstract:* the cosine transform | |
| `Colors` | conversions, pixel layouts, merged upsampling | |
| `ColorQuant` | both quantizers; what they keep from pass to pass | extends `CodedData` |
| `Planes` | planar YUV images of TurboJPEG | |
| `MemPools` | the pools of `jmemmgr.c`: blocks, arrays in chunks, memory shared out among virtual arrays | |
| `Headers` | every marker of `jcmarker.c` and `jdmarker.c` as bytes, `rdjpgcom.c`, `wrjpgcom.c`, ICC profiles | extends `CodedData` |
| `ImageFiles` | BMP, PPM and Targa files; `tjLoadImage`, `tjSaveImage`; GIF files with their LZW coder and decoder, data blocks, colormaps, interlacing | extends `CodedData` |
| `JavaBinding` | the native methods of `turbojpeg-jni.c` | `Planes` |
| `Programs` | `cjpeg.c`, `djpeg.c`, `jpegtran.c` but for the images, `rdswitch.c`, `rdcolmap.c`, `jcparam.c` | extends `CodedData` |
| `Computations` | a run of single computations, with their properties | `Dct`, `Colors`, `HuffmanCoding`, `Planes`, `Headers`, `ImageFiles`, `JavaBinding`, `Programs`; extends `ColorQuant` and `MemPools` |
| `MemoryProofs`, `DecompRowsProofs`, `CompRowsProofs`, `CompPassesProofs`, `TurboJPEGProofs`, `SimdProofs`, `DecompAPIProofs`, `TransformProofs` | proofs (section 4) | each extends the module that it is about (`MemoryProofs` two, `MemPools` and `VirtArray`) |
| `MC...` | instances for TLC: images, files, calls | |

Definitions carry the names of the functions and fields they model;
`PROJECT.json` gives the lines of each.  History variables, those that no code
keeps, are marked as such where they are declared.

### VirtArray and PlainArray

The state is the control block (`struct jvirt_sarray_control`) and the contents
of its buffer and of its backing store.  `request_virt_sarray`,
`realize_virt_arrays`, `access_virt_sarray` and `free_pool` are actions, and
`StoreRow` is a client that writes into the strip it was given.  How many strips
of `maxaccess` rows fit into memory, whether memory suffices at all and whether
a backing store can be opened are choices: they depend on `jmemsys.h`'s
implementation (`jmemnobs.c`, the one that is built, never opens one).  Fresh
memory and fresh files hold `Junk`.  `PlainArray` has no window: an access that
is well formed gives the rows, any other ends in an error.  The refinement maps
the contents of a row to the window if it is in there, else to the backing
store, and to zeroes if it was not yet opened for writing.

### DecompAPI

A file is a number of scans of `total_iMCU_rows` rows each, the announcement of
its headers (`multi`) and whether its source may run dry.  `inputctl` is the
input side, whose operations are functions from one state of it to the next; a call of `consume_input` reads one SOS, one iMCU row of data or EOI,
or suspends.  A call of the API that loops over the input is in progress (`call`)
for as many steps as its loop has iterations, so that suspension, errors and
infinite loops are visible; when it returns the application makes any other call
of `Calls`, in any state, the wrong ones included (`BadState`).  `coefs[r]` is
the number of the last scan decoded into row `r`; `shown[r]` is what the
application was given of it in this pass.  With two-pass quantization the dummy
pass of `output_pass_setup`, which may suspend, fills `post`.

### DecompRows and ScanlineReader

Two components: luma with `max_v_samp_factor` sample rows in a row group, chroma
with fewer.  The record `d` has the fields of the controllers.  With context
rows (`kind = "context"`) the model has the workspace of `M + 2` row groups and
both pointer lists of `make_funny_pointers`, the wraparound of
`set_wraparound_pointers`, and the rows that `set_bottom_pointers` duplicates:
an upsampled line names the sample rows it was read from through the pointers,
so that a wrong pointer shows as a wrong line.  `jpeg_read_scanlines` with any
number of lines and a source that may have no data, `jpeg_skip_scanlines` with
any number, the dummy pass and new output passes are the actions.
`ScanlineReader` only knows the number of the next line.

The constant `AnyCalls` says whether the application also makes the calls that the
code is known to get wrong (section 5):  `FALSE` leaves out the skips that
`SkipsCleanly` rules out and the reads that `ReadsCleanly` does, and everything
around them is checked.

### CompRows and ScanlineWriter

One call of `jpeg_write_scanlines` takes as many steps as the loops of
`process_data_simple_main` have iterations: a call of the preprocessor
(`PreProcessRows` or `PreProcessContext`), then `CompressRow`, or `SuspendRow` if
the destination has no room, then back.  A row of the conversion buffer is worth
the number of its line, a sample row the lines it is the mean of.  The action
`SuspendRow` includes the "hack" of `jcmainct.c`: the last line is taken back so
that the application calls again.  `ScanlineWriter` lets an iMCU row be
compressed when all of its lines have been supplied, and lets the application be
told of the last line only when all iMCU rows are.

### CompPasses and Datastream

An image is its components (sampling factors, table numbers), its size in blocks,
a script of scans and the parameters that choose the passes.  The state is that
of the master control, of the coefficient controller (its loop variables too,
during a call), `huff` (what each Huffman table was made for, and `sent_table`),
the marker writer's `last_restart_interval`, and the datastream so far: its
phase, scans and MCUs, and `told`, the tables and the restart interval a decoder
of it has.  `EncodeMCU` is the inner step of all five routines that form MCUs;
`SuspendMCU` takes any of them back to the place it keeps.  Calls of
`jpeg_finish_compress` make the remaining passes; there suspension is an error
(`EmitFails`).

`FreshTables` says whether the application defines all Huffman tables anew before
an image that is not optimized (section 5 has what happens if not).

### MarkerReader

A datastream is its bytes, of which a suspending source has the first `avail`;
one that does not suspend (`jdatasrc.c`) goes on with made-up EOI markers.  `pos`
is the restart point, `next_input_byte`.  `read_markers` and `jpeg_resync_to_restart`
take a step for each turn of their loops; a routine that suspends without a trace is
not enabled until its bytes are there, and the two that leave one, `next_marker`
(bytes discarded) and `save_marker` (the part read), take steps then too.
`decode_mcu` loads the working state, fills it up to a marker, and either
stores all of it or only `unread_marker`.  An MCU is two bytes, so that what
is decoded shows which bytes it was decoded from; the bodies of frame and scan headers
and of tables are skipped as a whole, the tags of JFIF and Adobe markers are one byte.
A job says what its datastream was written as, and which MCUs damage puts in doubt.

### Transform

A job is what `jpegtran` (one request) or `tjTransform` (several requests of one
source) is asked for; the three actions are the three calls made for each
request: `jtransform_request_workspace`, `jtransform_adjust_parameters`,
`jtransform_execute_transform`.  The block arrays of source, workspace and
destination are modelled with every loop of the eight `do_` routines, the three
that enlarge an image, wipe (zero, flatten, reflect) and drop; a block is a block
of the source in one of eight poses, or a flat one.  Properties look at samples:
with `DCTSIZE = 2` a block has four, which is enough to tell all poses apart.

### HuffmanCoding, ArithCoding, CodedData and Entropy

`Entropy` takes an image through its script.  A scan is gathered, if the parameters
or the coder ask for it, then put out, then decoded, an MCU a step; the coders'
states are two records, `enc` and `dec`, with the fields of the structs.  Coded data
are a sequence of items (`CodedData`): symbols of a table, bits as they are,
decisions with their statistics bin, restart markers.  A decoder asks for an item
as it believes it to be; one that is not as asked for is an error of the model.  Data
`arrive` in pieces, so that a Huffman decoder suspends between any two items of an
MCU, with the savable state it keeps then (`dc_refine` and `ac_refine` undo what they
set).  `ArithCoding` also has the registers themselves: `C`, `A`, the carries and
stacked bytes of `arith_encode` and `finish_pass`, and `arith_decode`.
`validate_script` says which scripts the encoder takes, `BadProgression` and
`BogusProgression` which scans the progressive decoders refuse or warn of.

### TurboJPEG

The state is the instance (`warning`, `stopOnWarning`, `headerRead`, the states
that its compressor and decompressor are left in, with the markers that are saved,
the methods that are overridden and the destination manager) and the heap.  A call
goes through its steps, each of which may fail where the library can raise an
error; then `Raise` is the jump to the call's `setjmp`, and `Bailout` what comes
behind the label: it aborts the objects that the call works with (`Needs`), which only for
`tjTransform` are both, so that a decompressor left in the middle of a header stays so
through calls that compress.  A file is what makes calls differ: it is good, warns, is
damaged, begins without SOI, has only tables, many scans, or a sampling that
TurboJPEG does not know.  `AnswersAsFresh` compares each answer with what the same
call answers with a new instance, if what the call works with was clean (`Fit`).  Buffers have addresses which are used again
after they are freed.

### Simd

There is one table for each `jsimd.c`, a set of rows: a row has the names of
the routines it stands for, the conditions of `jsimd_can_x()` and the tests of
`jsimd_x()` in their order.  The actions run `init_simd()` and them in threads; each read
and each write of `simd_support` is a step, also those of "&=" and "|=" (`ReadToAdd`
and `Add`, `ForceISA` and `Mask`).  A machine is the architecture, what its processor has and what of it is
found out, the variables of the environment, and the constants that are not aligned.
`Settled` is what a thread alone leaves in `simd_support`.  `RunsOnCpu` is about the
instructions of the version that runs.  `RunsAsTested` is what the code makes sure of about
constants: those of some version that is allowed were found aligned, which need not be the
one that runs (section 5).

### Computations and what it computes

A behaviour of `Computations` makes one computation, its `task`, whose definition
in one of the modules translates the code; the properties compare the result with
what it is to be.  In `Dct` a transform is one kernel for rows and columns, with the
factors of the source; the cosines of the reference (`TrueInverse`) come from
their series.  Where
the code has tables that it computes from a formula (`jpeg_nbits_table.h`, the
multipliers, `range_limit`) the model has the formula.  The second half of `ColorQuant`
is a system of its own within it: passes over pictures row by row, between which the application
changes colormap and dithering.

### Headers and ImageFiles

Pairs of a writer and a reader, joined by the actions `SendHeaders`, `SendProfile`,
`CopyGif`, `CopyFile` and `LoadFile` of `Computations`.

In `Headers` a file is its bytes, but for coded data, which are a few that hold no marker.
`c` is what an application has set in a compressor; `write_file_header` and the others
give the bytes of it, or fail where the code raises an error; `read_markers` makes of
them the fields of a decompressor, stopping at each scan with what it knows then.  `rdjpgcom`
and `wrjpgcom` read the same bytes with their own loops.  `SendHeaders` has `wrjpgcom` put
a comment into the file, any number of times, cuts the file off anywhere, and has all
three read what is left.  A marker of a profile is what `jpeg_read_icc_profile` looks at of
it; the application puts the markers into any order, loses some, or repeats them.

In `ImageFiles` a file is the numbers that its format has for the pixels, in the order of the
file: padded rows of bytes from the bottom (BMP), samples up to `maxval` (PPM), packets
(Targa).  Headers are records of what they say.  Of GIF files the writer's state is that of
`gif_dest_struct`, with a function from symbols
to codes for the hash table, and the reader's that of `gif_source_struct`, with the sequence
of its pixels for a symbol, in place of the chain of `symbol_head` and `symbol_tail`; bits go
through accumulator, packets and the buffer of `GetCode` as in the code.  `CopyGif` may cut the
data into blocks of another size, or end them early, and hand over rows interlaced, which the
writer here never does but the reader takes.

### JavaBinding

A native method is the sequence of its steps - arguments refused, functions of the virtual
machine called, arrays taken, memory allocated, the TurboJPEG API called - and what its
bailout gives back and frees.  `CallNative` has any one of its steps fail, or a property
with an exception pass where the code does not look for one, and keeps account of arrays, memory
and exceptions.  `LendArrays` compares, for images and planes with any pitch, stride and
offset, the sizes that the methods demand with the bytes that are reached.

### Programs

A command line is its words; `CommandLine` finds the switches by the keys of the program, in
the order in which `parse_switches` tries them, and `CjpegSwitch`, `DjpegSwitch` and
`JpegtranSwitch` are what each does to the variables of the program and to its `cinfo`.
`cjpeg`, `djpeg` and `jpegtran` are the two readings of the line with what comes in between:
the file's color space and the defaults that `jpeg_default_colorspace`,
`default_decompress_parms` or `jpeg_copy_critical_parameters` set.  What the first reading
leaves behind is what could go wrong.  Files of scans and tables and the specification of a
region are read character by character.  `RunProgram` has the switches of a line
in all orders.


### MemPools

The state is that of the manager: for each pool the list of blocks that small objects
share and that of large objects, `total_space_allocated`, the limit, the list of
virtual arrays.  A block is where `malloc()` placed it, modulo `ALIGN_SIZE`, with
`bytes_used`, `bytes_left` and the objects in it.  `alloc_small` (with a slop that
shrinks when memory is short) and `alloc_large` are steps; `alloc_sarray` and
`alloc_barray` are one for the row pointers and one for each chunk of rows;
`realize_virt_arrays` is one for each array that it measures and for each that it
realizes; `free_pool` one for each block.  So an error, for want of memory, of
a backing store or because a request is too large, comes between any two of them, and
is followed by `free_pool` or `self_destruct` as the applications do it.  A call under way
is in `doing`.  `VirtArray` has what becomes of an array then.


## 3. Runs, bounds and fairness

A property that is a conjunction is given with its parts.

| Run | Checks | Bounds |
|---|---|---|
| `virt_array` | `IInv` (`TypeOK`, `StripInWindow`, `CleanWindowSaved`, `NoVirtualBug` and what makes them inductive), `ImplementsPlainArray` | 4 rows, strips of at most 2, three contents of a row |
| `api` | `ShownInStep` (`TypeOK`, `InLockstep`, `LastPassIsFinal`), `FreshRows`, `ScanWillCome`, `CallsComplete` (`EveryCallReturns`, `SuspendedCallsComplete`, `CoefficientsComplete`, `FinishReadsAllData`) | 3 iMCU rows; in buffered-image mode a file of 3 scans and one with an unannounced second scan, both from a suspending source; else ten files of 0 to 2 scans |
| `rows_out` | `TypeOK`, `ImplementsReader`, `CallsAsAsked` (`ReadsAdvance`, `SkipsAsAsked`) | 35 setups, calls of up to 5 lines, skips of any length |
| `rows_in` | `CountersAgree` (`TypeOK`, `RowsAccountedFor`), `ImplementsWriter`, `LinesTaken` (`TakesAllUnlessSuspended`, `AllLinesTaken`) | 56 setups, calls of 0 to 5 lines |
| `comp_passes` | `MCUsFormed` (`TypeOK`, `MCUsInOrder`), `CodedAsTold` (`EncodedAsTold`, `CodesForAll`), `ImplementsDatastream`, `FinishCompletes` | any two of eleven images one after the other |
| `transform` | `OptionsHold` (`TypeOK`, `PerfectTurns`, `RegionAsAsked`, `Extended`, `RegionReplaced`), `ShowsTurned`, `Answered` | seven images in five samplings, all requests of `MCTransform` |
| `marker_reader` | `ReadInPlace` (`TypeOK`, `DecodedInPlace`), `MarkersAsWritten`, `AllRead` | 112 datastreams of 8 to 102 bytes, arriving one byte at a time; `APP0_DATA_LEN` 3, `APP14_DATA_LEN` 2, `MIN_GET_BYTES` 3 |
| `entropy` | `DecodedAsEncoded`, `CountedAsEncoded`, `CorrectionBitsFit`, `ScriptsAgree`, `BytesDecode` | one or two components, Huffman and arithmetic, sequential and progressive, restart intervals 0 to 2; `DCTSIZE2` 20, `EOBRUN_BITS` 2, `MAX_CORR_BITS` 37, `MAX_AH_AL` 10, up to 6 items arrive at a time; all scripts of one or two scans out of 66 |
| `turbojpeg` | `AnswersAsFresh`, `CallsEndClean`, `ResultsKept` | calls of every kind, any number one after the other; three addresses, `Worst` 3: results of up to 4 units |
| `simd` | `RunsSupported` (`TypeOK`, `RunsOnCpu`, `RunsAsTested`), `SupportSettles` | two threads; seven architectures, each with every generation of its processors; the variables of the environment one at a time, and one pair; all constants aligned, none, or all but AVX2's |
| `computations` | `TransformsHold` (`InverseIsTransform`, `BlockReturns`, `QuotientIsExact`), `ColorsConverted` (`ColorsReturn`, `MergedIsSeparate`), `PlanesFilled`, `DataReturn` (`CodesDecode`, `ProfilesReturn`, `HeadersReturn`, `GifsReturn`, `FilesReturn`, `NativeCallsReturn`, `ArraysLargeEnough`, `QualityOrdersTables`, `ScriptsComplete`, `KeywordsFound`, `CommandsObeyed`), `ColorsShown` (`NearestChosen`, `FewColorsKept`, `KeepsBrightness`), `SamePassSameOutput`, `ObjectsInPlace`, `MemoryAccounted` (`SpaceAccounted`, `RowsFitChunks`, `BuffersAsUsed`) | 5752 tasks; `MAX_DATA_BYTES_IN_MARKER` 3, `MAX_COM_LENGTH` 6; at most three Clear codes in a row (`MostClears`); a memory of 112 bytes with chunks of up to 64, `ALIGN_SIZE` 4, two places for a block, one limit, five requests of clients |
| `tj_copynone` | `CopyNoneCopiesNone`, violated | section 5 |

What they show:

* `virt_array`: however little of an array is in memory and in whatever order a
  client reads, writes and looks ahead, it is an array.  Four rows and a window of
  two or four make every case of `access_virt_sarray` occur: windows moved
  forwards, backwards, past the top and hanging over the end, dirty and clean,
  writes behind, at and ahead of `first_undef_row`.  The proofs take away the
  bounds.
* `api`: in buffered-image mode a pass shows nothing older than the scan it was
  set to; the loop that `libjpeg.txt` recommends ends with a pass of full quality;
  no call waits for a scan that does not come;  `jpeg_finish_decompress` leaves
  the source behind EOI.  Three scans are the fewest with which a pass can be set
  to a scan before, at and after the one being read, with one yet to come; three
  rows give input and output room to be ahead of each other by one or two rows,
  which is what the interlocks compare (smoothing looks one row ahead).  Without
  buffering the same holds, and input and output stay in step when lines are
  skipped by whole iMCU rows.
* `rows_out`: heights are chosen around the edges of row groups and iMCU rows (one
  line, one short of an iMCU row, exactly one, one more, two and a half, four),
  `M` from 1 to 3, `V` from 1 to 4, each kind of upsampler with each kind of
  quantization that the code allows.  Up to five lines a call is more than a row
  group and less than an iMCU row, so that calls end everywhere.
* `rows_in`: all heights from 1 to 12 lines with iMCU rows of four lines
  (`DCTSIZE` 2: the code's constant only sets how many row groups there are), and
  selected ones with row groups of 1, 3 and 4 lines.
* `comp_passes`: two images suffice for what one image leaves to the next, as
  everything that outlives an image is overwritten or kept by each; the eleven
  images take every branch of the master control: single-scan, script, progressive
  (with DC refinement, whose optimization pass is skipped), arithmetic,
  transcoded, optimized, restarts in rows; components wider or taller than each
  other, with dummy blocks at the right, at the bottom and at both.
* `transform`: widths and heights with and without partial iMCUs, crop offsets on
  and between iMCU borders, counted from either corner; pairs of transforms for
  what one leaves of the source to the next.
* `marker_reader`: the result of reading does not depend on where the source
  suspends - after any byte, also within FF/00, fill bytes, a length word or saved
  data, whose parameters look like markers here.  Damage is any single one out of:
  a restart marker lost, twice, renumbered by 1 to 7 or made an invalid code, one
  or two intervals lost with their markers, a byte too many or too few in an
  interval; in scans of five intervals of one MCU and of three of up to two, which
  is one more than the two counts the code looks ahead and behind.  A scan of ten
  intervals wraps the restart numbers around.  `DecodedInPlace` then says that no
  more is lost than the comment on `jpeg_resync_to_restart` grants: the intervals
  whose marker is missing, up to three for a marker that claims to be later than
  it is, and none for one that is more than two counts off.

* `entropy`: the blocks are dense, sparse, empty and of changing patterns, so that
  EOB runs begin, end and reach their limit (with two bits already after three
  blocks), zero runs pass 15, and correction bits fill the buffer.
  `MAX_CORR_BITS` 37 relates to 19 coefficients as 1000 does to 63: one block less
  than full must still fit.  `CountedAsEncoded` says that the second pass writes
  no symbol the first has not counted, which would have no code;  `ScriptsAgree`
  that the decoder neither refuses nor warns of a script which the encoder
  accepts.  `BytesDecode` follows the arithmetic coder to the bytes, with its
  carries and the zeroes it drops at the end.
* `turbojpeg`: each call that finds clean what it works with answers as a new instance
  would, whatever was called before; of the calls that fail all but three leave clean
  what they work with (section 5), and what these three leave is cleaned by calls that
  decompress, not by those that only compress; no buffer is lost, freed while the application has it, or
  written past its end.  Three addresses are one more than a call can have in use.
* `simd`: whatever two threads interleave and whatever constants are aligned, each runs
  only what the processor has, and nothing where no version's constants are aligned; and when both are through `simd_support` is what one thread alone makes of it.
* `computations`: the inverse transforms of all sizes on ten blocks (single terms,
  the edges of what quantization leaves, dense ones) are within the error that the
  standard allows of the cosine transform; blocks come back through all forward
  and inverse transforms and four tables; the reciprocals of 255 divisors divide
  exactly; colors on a lattice of 8 x 8 x 8 come back from YCC, YCCK and 16 bits,
  and merged upsampling gives what upsampling and conversion give, for odd widths
  and each layout; every plane of images of odd sizes is filled within its size,
  at each of 16 scales; a Huffman table from counts (Fibonacci ones, for codes
  over 16 bits) is complete, and what an encoder derives from it the decoder
  decodes; each color gets the nearest color of the map, a histogram of few colors
  keeps them, and dithering keeps the brightness of a square of one color.
  Profiles come back exactly if each of their markers is there once, for profiles of up to
  513 markers of three bytes: a capacity of 65519 only makes them longer.  GIF files of 1 to
  256 colors come back, of 5040 jumbled pixels, which fill the table of 4096 symbols and
  have it cleared, in blocks of 1, 2, 7 and 255 bytes, for every height from 1 to 17
  interlaced; of those that are cut off the whole codes do.  BMP, PPM and Targa files come
  back for each program and the TurboJPEG API as writer and as reader, upside down in
  memory or not, with or without a colormap, in each space asked for; samples of any
  `maxval` become the nearest of 8 bits, packets of Targa files go on over the ends of rows.
  Headers of five kinds of files, with tables that have to be written and that need not be,
  are read as they were meant, whole or cut off after any byte, with comments and without.
  A native method that fails at any of its steps has given back what it was lent.  The tables
  of the qualities from -1 to 102 are in order; `jpeg_simple_progression` sends every bit of
  every coefficient once, for 1 to 10 components, and `-scans` reads its script as it was
  written; every abbreviation of a switch is found; and 1376 command lines, of two to four
  switches in all their orders, come to what they ask for: lists that are too short, switches
  that exclude each other or are there twice, regions at the edges of a scaled image, colormaps
  of 256 and of 257 colors.
  `SamePassSameOutput` says that two passes over the same picture with the same
  settings put out the same, whatever passes and maps were in between.
  `ObjectsInPlace` and `MemoryAccounted` hold of all sequences of calls of the memory
  manager in so little memory that every request is refused in some of them: two virtual
  arrays, one of samples and one of blocks, that fit, that have to make do with a window, or
  for which there is not even that;  blocks at an address where the header happens to
  end aligned and at one where it does not;  chunks of three rows and a rest of one.

**Fairness.**  `DecompAPI`: weak fairness of a call in progress (a C function
runs on), of the arrival of data (the source manager's contract), and of
repeating a suspended call (the application's).  The application need not make
any other call.  `CompRows`: the library runs on; the application goes on calling
with at least one line; and, strongly, a destination that suspends again and
again does not always do so when an iMCU row is to be compressed.
`CompPasses`: a call that has begun goes on.
`MarkerReader`: the library reads on, the source gets all bytes of the datastream in
the end, and the application does not give up images for ever.  `Transform`: jobs
go on; there is no waiting.  The other runs check safety only.

**Mutants.**  Every property of every run has a mutant in `PROJECT.json`: a
variant of one definition, like a bug that could be in that code, with which TLC
finds the property violated.  They are defined next to what they vary, with a
name in two parts (`NewStart_NoClamp`).

`CHECK_DEADLOCK FALSE` is used for `Transform`, `Entropy` and `Computations`: a job, an
image, a computation ends.  The other
systems never stop, as an application can always go on or start again.


## 4. Proofs

`MemoryProofs`, of `VirtArray` - for every height of the array, every `maxaccess`, every
window `realize_virt_arrays` may choose and every sequence of accesses
(assumption `VirtArrayAssumption`: at least one row, `maxaccess` between 1 and the
height, `Zero` and `Junk` are data):

* `Invariance`: `Spec => []IInv`.  `IInv` is the type invariant together with
  what relates the window to the array: an array without a backing store has its
  window at row 0 and all rows in it; a window is at least `maxaccess` rows high; a
  clean window agrees with the store on the defined rows; whoever may write into
  the window has marked it dirty and its rows defined.  The type invariant alone is not
  inductive: whether the strip fits the moved window depends on the window being
  at least `maxaccess` high and on where it stands.
* `StripSafety`, `CleanWindowSafety`, `VirtualBugUnreachable` follow.
* `Refinement`: `Spec => ImplementsPlainArray`.  The lemma `WindowKeepsRows` says
  that moving the window changes the content of no defined row, for each of the
  three ways to choose the new place; `GrantedStrip` that the pointer handed out
  leads to the rows asked for; each action then maps to one of `PlainArray` or to
  a stutter.

`DecompRowsProofs` - for every set of images and output parameters, with or without context rows
or merged upsampling, of any height and `min_DCT_scaled_size`, one or two passes, and calls of any
length (assumption `RowsAssumption`), under the hypothesis `AnyCalls = FALSE`: the calls are
those that `ReadsCleanly` and `SkipsCleanly` allow.  With the others TLC finds the
properties violated (section 5):

* `RowsStayInRange`: `Spec => []TypeOK`.  `TypeOK` is far from inductive: that a counter of the
  main controller does not run on depends on where the upsampler and the application are.
  The invariant, `Between`, gives all of them by one number, the next line of the
  output: `PlaceSimple` without context rows, and `Preparing`, `Processing` and `Postponed` for
  the states of `process_data_context_main` say which iMCU row is in the buffer,
  which of its row groups is next and what is left of it; `Upsampler` how
  many lines `rows_to_go` may count.  `EmitsFrom` shows for each upsampler, `PostEmits` for the
  postprocessor, `DataResult` for `process_data` that all this holds n lines on,
  with n > 0.  The loop of `read_and_discard_scanlines` is a
  recursive function; `DiscardHolds` is by the lemma `Induction`, which comes from the well-founded
  order of finite sets, as theorems with operators for parameters cannot be cited.
  `SkipHolds` puts it together with the steps over row groups (`IncrementHolds`) and
  over iMCU rows (`SkipRowsHold`), where for a while `rows_to_go` is stale.
* `CallsGetThere`: `Spec => CallsAsAsked`, its two action properties, from the same invariant.

That the lines are the right ones (`ImplementsReader`) is only model-checked.

`CompRowsProofs` - for every image, `DCTSIZE` and `MaxLines` (assumption
`RowsAssumption`, what `initial_setup` and the downsampler's setup enforce):

* `RowsAccounted`: the rows the preprocessor has counted are those the application
  was told were taken, but for the one held back while suspended.  It is inductive
  with the ranges of four counters (`CountersOK`) and fails without the suspension
  flag, which is the point of the hack in `jcmainct.c`.
* `CountersInAccord`:  `Spec => []CountersAgree`, that is all of `TypeOK` besides.
  `TypeOK` alone is not inductive: that a row group fits into the workspace, that
  `next_buf_row` stays in the conversion buffer and that the padding at the bottom
  ends where it should depend on how the counters of the main controller, the
  preprocessor and the application relate.  `RangesInv` states this in five parts
  - `TypeOK`; what holds in each place of a call (`InCallOK`); what is complete
  when an iMCU row is full (`CompletedOK`); where the bottom of the image is
  reached (`BottomOK`); where the buffer with context rows is to stop (`StopsOK`)
  - and there is one lemma for each action.
* `WriterImplemented`: `Spec => ImplementsWriter`, the refinement of `ScanlineWriter`:
  what reaches the coefficient controller is the iMCU rows of the image, one after
  the other, each made of the lines it should be, the last line repeated below the
  bottom.  `DataInv` says for each row group that waits whether it is the one it
  should be (`Collected`), and for each row of the conversion buffer which line it
  holds.  With context rows the buffer is a window of three row groups that wraps
  around (`Window`): a row's place is its number modulo the height of the buffer
  (`Placed`), rows to come go to places behind `next_buf_stop` that no group still
  needs (`NewPlaces`), and the rows above the first and below the last are copies.
  That an iMCU row is complete when `next_iMCU_row` is done, and the image when its last
  row is, comes from `RangesInv`.  Each action is then a `Supply`, a `Compress` or a
  `Return` of `ScanlineWriter`, or a stutter; `RowsDiffer` is needed because a step that
  hands over an iMCU row must not be taken for one that repeats the one before.
* `CallsTakeAll`: `Spec => TakesAllUnlessSuspended`, an action property: a call that
  returns without having taken all its lines was suspended, and when the last line of
  an image is taken no row of it waits anywhere (`NothingLeft`).

`CompPassesProofs` - for every set of images, of any size, number of components, sampling
factors and script (assumption `ImagesAssumption`: what `initial_setup` and
`validate_script` let pass, with the table numbers of `jpeg_set_defaults`), any number of
them one after the other, over a destination that suspends anywhere:

* `MCUsAreFormed`: `Spec => []MCUsFormed`.  The counters stay in their ranges, and every
  MCU of every scan has the blocks that the standard puts there.  Neither is inductive.
  `PassesInv` relates `pass_number`, `scan_number`, `pass_type` and `total_passes`: with
  optimization there are two passes a scan, and a pass that is skipped is counted.
  `PlaceInv` says that `mcus`, a history variable, is what the counters of the
  coefficient controller make of it, in a call and where the next one is to go on.
  `SavedInv` says what the first of several passes has put into the virtual arrays
  (`SavedRow`), up to the iMCU row it has come to.  The rest is arithmetic, for any
  sampling factors: an iMCU row has as many block rows of each component as it is to
  have (`SizesOf`, `RowsAddUp`), the last MCU row and column are left over as
  `per_scan_setup` computes it (`Lines`, `Columns`), quotient and remainder of `mcus` give
  the place back (`PlaceOfMCU`).  `MadeIsRef` and `SavedIsRef` compare the three ways of
  forming an MCU with the standard's, dummy blocks included.
* `TablesAreTold`: `Spec => []EncodedAsTold`, whatever the application does with its tables:
  a table that is marked as sent is the one the decoder has (`TablesInv`), which
  `HeadersTell` shows of a scan header, and a scan that is being written has all its
  tables sent (`ToldInv`).
* `CodedAsMeant`: `Spec => []CodedAsTold`, under the hypothesis `FreshTables`, that an application
  which does not have an image optimized defines its tables before it; without it TLC
  finds `CodesForAll` violated (section 5).  `CodesInv` says which image and scan the
  tables of an output pass were made from, and from how many MCUs; a scan is never
  longer than that (`MCUsLeft`).
* `DatastreamImplemented`: `Spec => ImplementsDatastream`, the refinement of `Datastream`.
  `StreamInv` says how far the datastream is when a pass is under way and between
  passes.  `StepPutsOut` maps each action to one of `Datastream` or to a stutter; an MCU
  of a pass that only gathers statistics writes nothing (`MCUInScan`), and when the last
  pass is over there is no scan left (`TrailerInPlace`).

`MemoryProofs`, of `MemPools` - for every size of objects, rows, headers and slop, every
`ALIGN_SIZE` of 2 to 32 and every place `malloc()` may give a block (assumption
`PoolsAssumption`, what `jinit_memory_mgr` and `alloc_barray` check, and types):

* `PlacesSafe`: `PoolsSpec => []ObjectsInPlace`, that is every object and every row lies in
  its block behind the header, aligned, apart from the others.  That alone is not
  inductive: where the next object of a block will be, and whether there is room for
  it, is in `bytes_used` and `bytes_left`.  `PlacesInv` adds that objects end before
  `bytes_used`, counted from the first aligned byte; that `bytes_used` is aligned;
  that it, `bytes_left` and what is set aside for header and alignment make up the block; and
  that the rows of a call under way are of an aligned length.  `DataStarts` is the lemma
  it all rests on: aligning costs at most `ALIGN_SIZE - 1` bytes.
* `MemoryKept`: `PoolsSpec => []MemoryAccounted`, under the hypothesis `ChunksFit`.  Nothing
  is left when the manager closes is a statement about the sum of all blocks; it needs
  no recursion, as a sum is a witness: `Sums(blocks, n)` says that there are numbers from
  0 to `n` each of which is one block more.  The lemmas `AppendedSum`, `FrontSum`,
  `TailSum`, `SumKept` make such numbers for what an action makes of a list.  `SpaceInv`
  adds that the permanent pool is freed only when the other is empty.  `BufferInv` is
  about an array whose rows are being allocated: the chunks so far are full, and they and
  the rows left make up what `realize_virt_arrays` has granted (`FillInv`).
  `ChunksFit` is why it holds that no chunk is refused.  `alloc_sarray` and
  `alloc_barray` choose the rows of a chunk without counting the `ALIGN_SIZE - 1`
  bytes that `alloc_large` adds; rows are of a multiple of `2 * ALIGN_SIZE` bytes,
  though, so that what the header makes them leave is room enough: of 64 bytes 24 + 31
  (or 12 + 31 in a 32-bit build) with SIMD, of 32 bytes 24 + 7 without.  A 32-bit build
  without SIMD, where it is 12 + 7 of 16, is outside the hypothesis: there a chunk of
  999999984 bytes may be chosen, which `alloc_large` refuses as out of memory.

`TurboJPEGProofs` - for every set of calls an application may make, every number of
addresses and every `Worst` (assumptions `AddressesAssumption`, `CallsAssumption`: calls
have the parameters that their functions have, and `tjBufSize` is enough for what is
compressed):

* `CallsDoEndClean`, `ResultsAreKept`, `CallsAnswerAsFresh`: `CallsEndClean`,
  `ResultsKept` and `AnswersAsFresh` hold always.  None is inductive.  The invariant is in
  five parts, proved one on top of the other: `Typed` (also a theorem, `TypesHold`);
  `Placed`, which calls are at which step, and what the memory destination knows of its
  buffer (`Known`: the size it goes by is not more than the buffer's, or the buffer is large
  enough for anything); `Clean`, that the compressor is at work
  only within the calls that use it, and in which of its parts the decompressor may be left
  changed between calls;
  `Owned`, that what is on the heap is what the application has or will be given if the
  call fails now; and `Told`, that what a call has found out so far and what is ahead of
  it come to what the same call would answer on a new instance.

`SimdProofs` - for any number of threads and all machines of `MachinesAssumption` (what is
found out is there; SSE2 comes with MMX; nobody forces what the processor lacks):

* `MethodsRunSupported`, `AssignmentsSettle`: `RunsSupported` and `SupportSettles`
  hold always.  The lemma `TablesUsable` goes through every row of the seven tables:
  whatever condition makes `jsimd_can_x()` say yes, `jsimd_x()` has a version left
  to run.  `Sequential` is what a thread that is alone has made of `simd_support`
  at each place of `init_simd`;  `Converging` is the argument for a race: if
  `simd_support` is not what it will settle for, then some thread is still within
  `init_simd` and will put it right, which holds if no more than one variable
  restricts it (section 5 has what happens with two).

`DecompAPIProofs` - for every number of iMCU rows, all files and settings
(assumptions `InputAssumption`, `APIAssumption`), under the hypothesis `Disciplined`: a suspended
`jpeg_start_output` is repeated with the same scan, and no lines are skipped in
buffered-image mode.  Without it TLC finds the properties violated (section 5), so
that it cannot be done without:

* `RowsInStep`, `RowsAreFresh`, `PassScansExist`: `ShownInStep`, `FreshRows` and
  `ScanWillCome` hold always, by the inductive `IInv`: in which states which input method
  is installed (`CallsInPlace`, `InHeaders`, `InImage`), what is complete when all
  coefficients are read (`CoefsRead`), which scan a pass is set to (`PassSet`), that
  `output_iMCU_row` and `output_scanline` go together, and with `input_iMCU_row` if
  there is no buffer for the whole image (`InStep`), and that a row
  which may be shown has the quality of the scan asked for, or of the whole file
  (`RowsWorthy`).  `ReadingCallEnds` is the lemma for the loops that absorb input.
* `CoefficientsAreComplete`, `FinishReadsAll`: the action properties
  `CoefficientsComplete` and `FinishReadsAllData`, from the same invariant.

`TransformProofs` - for every set of images, of any size, number of components and sampling
factors, all requests and jobs, and every image to be dropped (assumptions
`ImagesAssumption`: what `initial_setup` of `jdinput.c` lets pass; `JobsAssumption`: requests
have the fields that they have, and a wipe or a drop comes with a region):

* `RegionIsAsAsked`: `Spec => []RegionAsAsked`, without any hypothesis.  What the code
  computes in four places - offset in iMCUs, size of the output, trimming at the right, trimming
  at the bottom - adds up in each direction (`OffsetInImage`, `CropPlaced`, `TrimClean`,
  `ResultPlaced`).  `Inv` carries it to the result: the source keeps its shape whatever is
  written over its blocks, each `info` is what was made of its request, which was
  accepted, and the destination has the size and components that its `info` says.
* `ResultsShowTurned`: `Spec => []ShowsTurned`, under the hypothesis `SourceStays`, that no
  transform but the last of a job leaves a changed result in the arrays of the source.
  One transform alone fulfils it, and so do all jobs of `tjTransform` without filters;
  with a filter TLC finds `ShowsTurned` violated (section 5).  `ShownInv` adds to `Inv`
  that the source holds the image for as long as there is a result to be made of it.
  `BlocksFit` and `Geometry` say that a block of the result, and the block that
  mirrors it, lie in the source, for any sampling;  `TurnedBlock` goes through the eight
  routines and says which block each takes, and in which of the eight poses (`Poses`);
  `PosedSample` and `TurnedSample` that its samples are then where the turn takes them.
* `PerfectTurnsAll`: `Spec => []PerfectTurns`, from the same invariant: if
  `jtransform_perfect_transform` agrees, a mirrored direction has no partial iMCU, nothing
  is cut off (`PerfectSizes`), and the blocks of each component are all mirrored
  (`WholeMirrored`).

Hypotheses are about constants, and the constants of the runs fulfil them.

Only model-checked: everything else.  Liveness (`EveryCallReturns`,
`SuspendedCallsComplete`, `AllLinesTaken`, `FinishCompletes`, `Answered`,
`AllRead`) is out of the prover's reach.  `Entropy` and most of `Computations` are about what folds and recursive
functions compute from data, each of which would need an induction of its own.  Of
`OptionsHold` the parts `TypeOK`, `Extended` and `RegionReplaced` are only checked: they are about
images made larger, wiped and dropped into, where the reflections of `do_crop_ext_reflect` go
to and fro as often as it takes, which is by induction, too.  The invariants of `MarkerReader` compare what is read with what
a datastream was made of, and `ReaderAssumption` does not say how its bytes come of
that.


## 5. Disagreements found

One is a run in which TLC finds the property violated:

* `tj_copynone` - `tjTransform` with `TJXOPT_COPYNONE` copies the markers if an
  earlier call of the instance had them saved: `jcopy_markers_setup` is not undone, and
  `jcopy_markers_execute` is called whatever the option (`CopyNoneCopiesNone`).

Others are of the constants: with the values given here TLC finds the property violated,
and each was then seen in a program built from this source that makes the calls of the
counterexample.  The runs leave them out, so that everything around them is checked.

| Code | Module, property | Constants |
|---|---|---|
| `jdapistd.c:440`: after `jpeg_skip_scanlines` to the bottom of a buffered-image pass the next pass never ends: `eoi_reached` is set with the scan partly read, and `decompress_data` waits for rows that `consume_input` no longer reads | `MCDecompAPI`, `EveryCallReturns` | `Files <- TwoScansInMemory`, `Settings <- PlainBuffered`, `Calls <- CallsWithSkips` |
| `jdapistd.c:497`: two skips within one iMCU row that is not decoded yet: the rest of it is counted as passed, but the next read decodes it and returns its lines for those of the next | `MCDecompRows`, `ImplementsReader` | `Setups <- FullSizeSetup`, `AnyCalls = TRUE` |
| `jdapistd.c:498`: a skip of whole row groups within an iMCU row leaves `rows_to_go` as it was; if the last row group of the image is cut, the reads that follow hand out a line below the bottom (22 lines of 21 with 2:1 replication and no context rows, after two lines read and four skipped) | `MCDecompRows`, `TypeOK` | `Setups <- CutSetup`, `AnyCalls = TRUE` |
| `jdpostct.c:226`: `post_process_2pass` takes as many rows to be left as there are from `starting_row`, whatever `next_row` is; a last strip of three rows or fewer of four, read in part, is read on to lines below the bottom (a call for one line and one for three of an image of 15 lines, with `v_samp_factor` 4 and two-pass quantization, return four in place of three) | `MCDecompRows`, `ImplementsReader` | `Setups <- CutStripSetup`, `AnyCalls = TRUE` |
| `jstdhuff.c:30`: `jpeg_set_defaults` does not restore the standard Huffman tables once there are others; an image compressed without optimization after an optimized one is coded with tables of the other image | `MCCompPasses`, `CodesForAll` | `Images <- TwoImages`, `FreshTables = FALSE` |
| `jdapistd.c:653`: a suspended `jpeg_start_output` that is repeated with another scan number, as `libjpeg.txt:2111-2123` does when it passes `cinfo.input_scan_number`, goes on with rows already shown of the earlier scan | `MCDecompAPI`, `LastPassIsFinal` | `SameScanOnRetry = FALSE` |
| `transupp.c:527`: `jpegtran -crop 64rx16+0+0` on an image narrower than an iMCU does not end | `MCTransform`, `Answered` | `Images <- NarrowImages`, `Jobs <- NarrowJobs` |
| `turbojpeg.c:2046`: a custom filter of one transform of `tjTransform` changes the source that the following ones start from, if the transform works in place | `MCTransform`, `ShowsTurned` | `Jobs <- FilterJobs` |

Met while modelling and not given a run of their own:

* `jpeg_consume_input` raises `JERR_BAD_STATE` while coefficients are being read
  (`jdapimin.c:335`);  `libjpeg.txt:2024` says it may be called at any time.
* After a skip to the bottom `jpeg_finish_decompress` does not read the rest of
  the file (`jdapistd.c:440`), unlike what `jdatasrc.c:195` says of `term_source`.
* Skips that end badly, all in `jpeg_skip_scanlines`: with merged 2:1 upsampling a
  spare row is left behind and `rows_to_go` stays; a simple upsampler in the
  middle of a row group emits an old line; with context rows and
  `max_v_samp_factor` 4 an iMCU row that is decoded is taken for one that is not
  (`jdapistd.c:464`).  `SkipsCleanly` of `DecompRows` names these cases.
* `jpeg_write_marker` is guarded by `next_scanline == 0`, which also holds after a
  first call of `jpeg_write_scanlines` that suspended with the headers written.
* `adjust_quant` (`transupp.c:211`) requantizes one component for a drop and
  leaves another that shares its table.
* `tjTransform` checks the alignment of a crop against the source's iMCU, also if
  the transform transposes (`turbojpeg.c:1987`).
* `jdcol565.c:58`: when the rows of a call begin at 2 modulo 4, the 16-bit
  conversions make the first pixel of each row by itself and take it off the
  number of columns for good, so that later rows of the call lose their last
  pixels.
* `tjDecompressHeader3` returns from its `setjmp` without `jpeg_abort`
  (`turbojpeg.c:1222`): after a header that fails the instance cannot read the
  next file, also if it compresses in between, which cleans only the compressor, until a call
  that decompresses has cleaned up.  `tjDecompressToYUV2` (`:1828`, and the `THROW` at `:1837`) does the
  same and leaves `stopOnWarning` set; it forgets warnings of the header.
  `tjDecodeYUVPlanes` (`:1502`) does not put back the methods of the marker reader
  if reading the header fails.  `CallsEndClean` names these three.
* `jpeg_mem_dest_tj` (`jdatadst-tj.c`) does not reset `newbuffer`: where a buffer
  of the caller's own must grow, what is freed is a buffer that was handed out
  before.  The application of `TurboJPEG` gives only NULL, a buffer of the worst
  size, or the last result.
* By reading:  `jpeg_mem_dest_tj` keeps the size that it has for its last buffer when it is
  handed a buffer at the same address, and ignores the size given with it.  As long as all
  are of `tjBufSize()` or results, either is enough.
* By reading:  `tjDecompressToYUVPlanes` of 4:2:0 at scale 1/2 with
  `TJFLAG_FASTDCT` uses the 4x4 transform for chroma (`turbojpeg.c:1777-1781`)
  with the multipliers that `jddctmgr.c` made for the fast 8x8 one.
* Two variables that force instructions and two threads may leave `simd_support`
  other than one thread does;  `jsimd_fdct_ifast` for i386 tests the alignment of
  `jconst_fdct_islow_sse2`.
* The dispatchers for x86 "verify at runtime" whether constants are aligned (`jsimd.c:26-29`),
  but only for the answer of `jsimd_can_x`, which is yes if any one version may run; `jsimd_x`
  then picks the version, nearly always by `simd_support` alone.  So AVX2's runs when only the
  constants of SSE2 are aligned (`x86_64/jsimd.c:81-87`, `:186`), and on i386 SSE2's when none
  are and the processor has MMX (`i386/jsimd.c:93`, `:208`).  `RunsAsTested` of `Simd` therefore
  says no more than that some version's were.
* ICC profiles of more than 255 markers are written without an error (`jcicc.c`)
  and cannot be read back: the number of markers is put into one byte.
* A GIF file with a gray global colormap and a colored local one is read as gray, by the
  red samples of its colors: `ReadColorMap` (`rdgif.c:364`) makes the space gray for the first and
  never takes it back.
* `turbojpeg-jni.c`: `params` of `TJTransformer.transform` is never freed; `init` loses its
  handle if the class has no field for it; when memory runs out before `dstBufs` is cleared,
  the bailout looks at pointers that were never set; a custom filter calls functions of the
  virtual machine while arrays are taken with `GetPrimitiveArrayCritical`, which its contract
  forbids; and where that fails no exception is left.  `NativeCallsReturn` names them.
* `-restart 0` of `cjpeg` and `jpegtran` does not undo an earlier `-restart 5B`, whose interval
  stays (`cjpeg.c:446`), and `-verbose` puts `-maxscans` out of force, as the progress monitor is
  only installed if nothing is traced (`cdjpeg.c:66`).
* `-rg` and `-rgb` of `djpeg` are taken for `-rgb` though `rgb565` has the same shortest
  abbreviation (`djpeg.c:310`).
* `read_scan_integer` overlooks one character that is no space (`rdswitch.c:158`), so that
  `0 a1;` is a scan of the components 0 and 1; of two such it complains.


## 6. What is not modelled

`PROJECT.json` has every component with its status.  In short:

* The versions of routines in assembly and intrinsics (`simd/`):  `Dct`, `Colors`
  and the like model the C code they are to equal.  The floating point transforms.
* Upsampling and downsampling along a row (`DecompRows` and `CompRows` have whole
  rows, `Colors` the merged upsamplers), big-endian 16-bit pixels,
  `gray_rgb565D_convert`.
* Frame headers, scan headers and tables in `MarkerReader` (they are in `Headers`), where
  an MCU is two bytes; damaged data of progressive and arithmetic scans; the bit
  buffer of the Huffman encoders;  `decode_mcu_fast`, which does what
  `decode_mcu_slow` does where no marker is near.
* The growing of `jdatadst.c`'s memory buffer but for TurboJPEG's, overflow of
  `size_t` in `jmemmgr.c`, and errors that leave the library in the middle of
  anything but for TurboJPEG: an error ends a behaviour of the other modules, but
  for `jpeg_abort`.
* `jpeg_crop_scanline`, raw data, `adjust_quant` of drops.
* Of headers marker data that the end of a file cuts, which `rdjpgcom` shows and `wrjpgcom` copies
  in part; `FF00` before the first scan; the command lines of the two.
* Of image files the layout of headers and the errors about them, density, the text of PPM
  numbers, the order of samples in extended RGB formats, alpha samples, 12-bit samples.
* Of the Java binding sizes of 0, pitches shorter than a row, negative offsets, the sizes of
  the results of a transformation, sums that overflow.
* Of the programs upper case, the characters of numbers in arguments, two-file command
  lines, sources and destinations in memory, colormap files that are cut off, regions whose sum
  overflows, exit codes; `-perfect` is in `Transform`.
* Tests, fuzzers, benchmarks, documents and build files.
* A build without SIMD (`jsimd_none.c`): every answer is no.


## 7. Plan

Done, in this order: virtual arrays and their proofs; the decompressor's API; its
rows; the compressor's rows; its passes; transformations; the marker reader; the entropy
coders; SIMD detection; TurboJPEG; transforms, colors, quantizers, tables and planes; the
proof of all counters of `CompRows`; the memory pools and the proof that
objects are in their places; ICC profiles and image files; the proofs of `TurboJPEG`,
`Simd` and `DecompAPI`, of the refinement of `CompRows`, of the memory manager's
accounts, of all that is checked of `CompPasses` but its end, and of the turns and regions of
`Transform`; headers, the Java binding and the programs; the proof of the counters and calls of
`DecompRows`.

Left, models: `jpeg_crop_scanline` and raw data in `DecompRows`; requantization in
`Transform`, for the one hazard without a property (`transupp.c:211`).

Left, proofs:

1. `DecompRows`: `ImplementsReader`.  `Between` says where the controllers stand, but not yet
   what is in the rows of the workspace.
2. `Transform`: `Extended` and `RegionReplaced` where nothing is reflected.
3. `Computations`: what is by induction, from a lemma like `Induction` of `DecompRowsProofs`.
