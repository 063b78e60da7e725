----------------------------- MODULE DsdlUavcan -----------------------------
(***************************************************************************)
(* The schemas of the types of the namespace uavcan other than uavcan.si:  *)
(* node, register, file, port, transport and time services, primitive      *)
(* values (src/Lib/cyphal_public_regulated_data_types_compiled/uavcan).  A *)
(* schema is what the bodies of X_serialize_ and X_deserialize_ and the    *)
(* two size macros of the type X say: the members in their order, and how  *)
(* each is put on the wire.  A union lists its options in the order of the *)
(* tag.                                                                    *)
(***************************************************************************)
EXTENDS Dsdl

-----------------------------------------------------------------------------

\* index
uavcan_register_List_Request_1_0 ==
  Struct("uavcan.register.List.Request", <<1, 0>>, 2, 2, <<UInt(16)>>)

\* name
uavcan_register_Name_1_0 ==
  Struct("uavcan.register.Name", <<1, 0>>, 256, 256, <<UpTo(255, UInt(8))>>)

\* name
uavcan_register_List_Response_1_0 ==
  Struct("uavcan.register.List.Response", <<1, 0>>, 256, 256,
    <<uavcan_register_Name_1_0>>)

-----------------------------------------------------------------------------

\* value
uavcan_diagnostic_Severity_1_0 ==
  Struct("uavcan.diagnostic.Severity", <<1, 0>>, 1, 1, <<UInt(3)>>)

-----------------------------------------------------------------------------

\* value
uavcan_file_Error_1_0 ==
  Struct("uavcan.file.Error", <<1, 0>>, 2, 2, <<UInt(16)>>)

\* error, size, unix_timestamp_of_last_modification,
\*   is_file_not_directory, is_link, is_readable, is_writeable, void
uavcan_file_GetInfo_Response_0_1 ==
  Struct("uavcan.file.GetInfo.Response", <<0, 1>>, 48, 13,
    <<uavcan_file_Error_1_0, Truncated(40), Truncated(40), Bool, Bool, Bool,
      Bool, Void(4)>>)

\* error, size, unix_timestamp_of_last_modification,
\*   is_file_not_directory, is_link, is_readable, is_writeable, void
uavcan_file_GetInfo_Response_0_2 ==
  Struct("uavcan.file.GetInfo.Response", <<0, 2>>, 48, 13,
    <<uavcan_file_Error_1_0, Truncated(40), Truncated(40), Bool, Bool, Bool,
      Bool, Void(4)>>)

\* error
uavcan_file_Modify_Response_1_0 ==
  Struct("uavcan.file.Modify.Response", <<1, 0>>, 48, 2,
    <<uavcan_file_Error_1_0>>)

\* error
uavcan_file_Modify_Response_1_1 ==
  Struct("uavcan.file.Modify.Response", <<1, 1>>, 48, 2,
    <<uavcan_file_Error_1_0>>)

\* path
uavcan_file_Path_1_0 ==
  Struct("uavcan.file.Path", <<1, 0>>, 113, 113, <<UpTo(112, UInt(8))>>)

\* path
uavcan_file_GetInfo_Request_0_1 ==
  Struct("uavcan.file.GetInfo.Request", <<0, 1>>, 300, 113,
    <<uavcan_file_Path_1_0>>)

\* entry_index, void, directory_path
uavcan_file_List_Request_0_1 ==
  Struct("uavcan.file.List.Request", <<0, 1>>, 300, 121,
    <<UInt(32), Void(32), uavcan_file_Path_1_0>>)

\* void, entry_base_name
uavcan_file_List_Response_0_1 ==
  Struct("uavcan.file.List.Response", <<0, 1>>, 300, 117,
    <<Void(32), uavcan_file_Path_1_0>>)

\* preserve_source, overwrite_destination, void, source, destination
uavcan_file_Modify_Request_1_0 ==
  Struct("uavcan.file.Modify.Request", <<1, 0>>, 600, 230,
    <<Bool, Bool, Void(30), uavcan_file_Path_1_0, uavcan_file_Path_1_0>>)

\* path
uavcan_file_Path_2_0 ==
  Struct("uavcan.file.Path", <<2, 0>>, 256, 256, <<UpTo(255, UInt(8))>>)

\* path
uavcan_file_GetInfo_Request_0_2 ==
  Struct("uavcan.file.GetInfo.Request", <<0, 2>>, 300, 256,
    <<uavcan_file_Path_2_0>>)

\* entry_index, void, directory_path
uavcan_file_List_Request_0_2 ==
  Struct("uavcan.file.List.Request", <<0, 2>>, 300, 264,
    <<UInt(32), Void(32), uavcan_file_Path_2_0>>)

\* void, entry_base_name
uavcan_file_List_Response_0_2 ==
  Struct("uavcan.file.List.Response", <<0, 2>>, 300, 260,
    <<Void(32), uavcan_file_Path_2_0>>)

\* preserve_source, overwrite_destination, void, source, destination
uavcan_file_Modify_Request_1_1 ==
  Struct("uavcan.file.Modify.Request", <<1, 1>>, 600, 516,
    <<Bool, Bool, Void(30), uavcan_file_Path_2_0, uavcan_file_Path_2_0>>)

\* offset, path
uavcan_file_Read_Request_1_0 ==
  Struct("uavcan.file.Read.Request", <<1, 0>>, 300, 118,
    <<Truncated(40), uavcan_file_Path_1_0>>)

\* error, data
uavcan_file_Read_Response_1_0 ==
  Struct("uavcan.file.Read.Response", <<1, 0>>, 300, 260,
    <<uavcan_file_Error_1_0, UpTo(256, UInt(8))>>)

\* offset, path
uavcan_file_Read_Request_1_1 ==
  Struct("uavcan.file.Read.Request", <<1, 1>>, 300, 261,
    <<Truncated(40), uavcan_file_Path_2_0>>)

\* offset, path, data
uavcan_file_Write_Request_1_0 ==
  Struct("uavcan.file.Write.Request", <<1, 0>>, 600, 311,
    <<Truncated(40), uavcan_file_Path_1_0, UpTo(192, UInt(8))>>)

\* error
uavcan_file_Write_Response_1_0 ==
  Struct("uavcan.file.Write.Response", <<1, 0>>, 48, 2,
    <<uavcan_file_Error_1_0>>)

\* error
uavcan_file_Write_Response_1_1 ==
  Struct("uavcan.file.Write.Response", <<1, 1>>, 48, 2,
    <<uavcan_file_Error_1_0>>)

-----------------------------------------------------------------------------

\* session_id, payload
uavcan_internet_udp_HandleIncomingPacket_Request_0_1 ==
  Struct("uavcan.internet.udp.HandleIncomingPacket.Request", <<0, 1>>, 600, 313,
    <<UInt(16), UpTo(309, UInt(8))>>)

uavcan_internet_udp_HandleIncomingPacket_Response_0_1 ==
  Struct("uavcan.internet.udp.HandleIncomingPacket.Response", <<0, 1>>, 63, 0,
    <<>>)

\* session_id, payload
uavcan_internet_udp_HandleIncomingPacket_Request_0_2 ==
  Struct("uavcan.internet.udp.HandleIncomingPacket.Request", <<0, 2>>, 600, 512,
    <<UInt(16), UpTo(508, UInt(8))>>)

uavcan_internet_udp_HandleIncomingPacket_Response_0_2 ==
  Struct("uavcan.internet.udp.HandleIncomingPacket.Response", <<0, 2>>, 63, 0,
    <<>>)

\* session_id, destination_port, destination_address, use_masquerading,
\*   use_dtls, void, payload
uavcan_internet_udp_OutgoingPacket_0_1 ==
  Struct("uavcan.internet.udp.OutgoingPacket", <<0, 1>>, 600, 313,
    <<UInt(16), UInt(16), UpTo(45, UInt(8)), Bool, Bool, Void(6),
      UpTo(260, UInt(8))>>)

\* session_id, destination_port, destination_address, use_masquerading,
\*   use_dtls, void, payload
uavcan_internet_udp_OutgoingPacket_0_2 ==
  Struct("uavcan.internet.udp.OutgoingPacket", <<0, 2>>, 600, 561,
    <<UInt(16), UInt(16), UpTo(45, UInt(8)), Bool, Bool, Void(6),
      UpTo(508, UInt(8))>>)

-----------------------------------------------------------------------------

\* value, void
uavcan_metatransport_can_BaseArbitrationID_0_1 ==
  Struct("uavcan.metatransport.can.BaseArbitrationID", <<0, 1>>, 4, 4,
    <<Truncated(11), Void(21)>>)

\* void
uavcan_metatransport_can_Error_0_1 ==
  Struct("uavcan.metatransport.can.Error", <<0, 1>>, 4, 4, <<Void(32)>>)

\* value, void
uavcan_metatransport_can_ExtendedArbitrationID_0_1 ==
  Struct("uavcan.metatransport.can.ExtendedArbitrationID", <<0, 1>>, 4, 4,
    <<Truncated(29), Void(3)>>)

\* base, extended
uavcan_metatransport_can_ArbitrationID_0_1 ==
  Union("uavcan.metatransport.can.ArbitrationID", <<0, 1>>, 5, 5,
    <<uavcan_metatransport_can_BaseArbitrationID_0_1,
      uavcan_metatransport_can_ExtendedArbitrationID_0_1>>)

\* arbitration_id, data
uavcan_metatransport_can_DataClassic_0_1 ==
  Struct("uavcan.metatransport.can.DataClassic", <<0, 1>>, 14, 14,
    <<uavcan_metatransport_can_ArbitrationID_0_1, UpTo(8, UInt(8))>>)

\* arbitration_id, data
uavcan_metatransport_can_DataFD_0_1 ==
  Struct("uavcan.metatransport.can.DataFD", <<0, 1>>, 70, 70,
    <<uavcan_metatransport_can_ArbitrationID_0_1, UpTo(64, UInt(8))>>)

\* arbitration_id
uavcan_metatransport_can_RTR_0_1 ==
  Struct("uavcan.metatransport.can.RTR", <<0, 1>>, 5, 5,
    <<uavcan_metatransport_can_ArbitrationID_0_1>>)

\* error, data_fd, data_classic, remote_transmission_request
uavcan_metatransport_can_Frame_0_2 ==
  Union("uavcan.metatransport.can.Frame", <<0, 2>>, 71, 71,
    <<uavcan_metatransport_can_Error_0_1,
      uavcan_metatransport_can_DataFD_0_1,
      uavcan_metatransport_can_DataClassic_0_1,
      uavcan_metatransport_can_RTR_0_1>>)

\* error, data_fd, data_classic, remote_transmission_request
uavcan_metatransport_can_Manifestation_0_1 ==
  Union("uavcan.metatransport.can.Manifestation", <<0, 1>>, 71, 71,
    <<uavcan_metatransport_can_Error_0_1,
      uavcan_metatransport_can_DataFD_0_1,
      uavcan_metatransport_can_DataClassic_0_1,
      uavcan_metatransport_can_RTR_0_1>>)

\* value
uavcan_metatransport_ethernet_EtherType_0_1 ==
  Struct("uavcan.metatransport.ethernet.EtherType", <<0, 1>>, 2, 2,
    <<UInt(16)>>)

\* destination, source, ethertype, payload
uavcan_metatransport_ethernet_Frame_0_1 ==
  Struct("uavcan.metatransport.ethernet.Frame", <<0, 1>>, 9232, 9232,
    <<Fixed(6, UInt(8)), Fixed(6, UInt(8)),
      uavcan_metatransport_ethernet_EtherType_0_1, UpTo(9216, UInt(8))>>)

\* data
uavcan_metatransport_serial_Fragment_0_2 ==
  Struct("uavcan.metatransport.serial.Fragment", <<0, 2>>, 2050, 2050,
    <<UpTo(2048, UInt(8))>>)

\* ip_address, mac_address, port, void
uavcan_metatransport_udp_Endpoint_0_1 ==
  Struct("uavcan.metatransport.udp.Endpoint", <<0, 1>>, 32, 32,
    <<Fixed(16, UInt(8)), Fixed(6, UInt(8)), UInt(16), Void(64)>>)

-----------------------------------------------------------------------------

\* command, parameter
uavcan_node_ExecuteCommand_Request_1_0 ==
  Struct("uavcan.node.ExecuteCommand.Request", <<1, 0>>, 300, 115,
    <<UInt(16), UpTo(112, UInt(8))>>)

\* status
uavcan_node_ExecuteCommand_Response_1_0 ==
  Struct("uavcan.node.ExecuteCommand.Response", <<1, 0>>, 48, 1, <<UInt(8)>>)

\* command, parameter
uavcan_node_ExecuteCommand_Request_1_1 ==
  Struct("uavcan.node.ExecuteCommand.Request", <<1, 1>>, 300, 258,
    <<UInt(16), UpTo(255, UInt(8))>>)

\* status
uavcan_node_ExecuteCommand_Response_1_1 ==
  Struct("uavcan.node.ExecuteCommand.Response", <<1, 1>>, 48, 1, <<UInt(8)>>)

uavcan_node_GetInfo_Request_1_0 ==
  Struct("uavcan.node.GetInfo.Request", <<1, 0>>, 0, 0, <<>>)

uavcan_node_GetTransportStatistics_Request_0_1 ==
  Struct("uavcan.node.GetTransportStatistics.Request", <<0, 1>>, 0, 0, <<>>)

\* value
uavcan_node_Health_1_0 ==
  Struct("uavcan.node.Health", <<1, 0>>, 1, 1, <<UInt(2)>>)

\* value
uavcan_node_ID_1_0 ==
  Struct("uavcan.node.ID", <<1, 0>>, 2, 2, <<UInt(16)>>)

\* num_emitted, num_received, num_errored
uavcan_node_IOStatistics_0_1 ==
  Struct("uavcan.node.IOStatistics", <<0, 1>>, 15, 15,
    <<Truncated(40), Truncated(40), Truncated(40)>>)

\* transfer_statistics, network_interface_statistics
uavcan_node_GetTransportStatistics_Response_0_1 ==
  Struct("uavcan.node.GetTransportStatistics.Response", <<0, 1>>, 192, 61,
    <<uavcan_node_IOStatistics_0_1, UpTo(3, uavcan_node_IOStatistics_0_1)>>)

\* value
uavcan_node_Mode_1_0 ==
  Struct("uavcan.node.Mode", <<1, 0>>, 1, 1, <<UInt(3)>>)

\* uptime, health, mode, vendor_specific_status_code
uavcan_node_Heartbeat_1_0 ==
  Struct("uavcan.node.Heartbeat", <<1, 0>>, 12, 7,
    <<UInt(32), uavcan_node_Health_1_0, uavcan_node_Mode_1_0, UInt(8)>>)

\* major, minor
uavcan_node_Version_1_0 ==
  Struct("uavcan.node.Version", <<1, 0>>, 2, 2, <<UInt(8), UInt(8)>>)

\* protocol_version, hardware_version, software_version,
\*   software_vcs_revision_id, unique_id, name, software_image_crc,
\*   certificate_of_authenticity
uavcan_node_GetInfo_Response_1_0 ==
  Struct("uavcan.node.GetInfo.Response", <<1, 0>>, 448, 313,
    <<uavcan_node_Version_1_0, uavcan_node_Version_1_0,
      uavcan_node_Version_1_0, UInt(64), Fixed(16, UInt(8)),
      UpTo(50, UInt(8)), UpTo(1, UInt(64)), UpTo(222, UInt(8))>>)

\* mask
uavcan_node_port_ServiceIDList_0_1 ==
  Struct("uavcan.node.port.ServiceIDList", <<0, 1>>, 128, 64,
    <<Fixed(512, Bool)>>)

\* value
uavcan_node_port_ServiceID_1_0 ==
  Struct("uavcan.node.port.ServiceID", <<1, 0>>, 2, 2, <<UInt(9)>>)

\* value
uavcan_node_port_SubjectID_1_0 ==
  Struct("uavcan.node.port.SubjectID", <<1, 0>>, 2, 2, <<UInt(13)>>)

\* subject_id, service_id
uavcan_node_port_ID_1_0 ==
  Union("uavcan.node.port.ID", <<1, 0>>, 3, 3,
    <<uavcan_node_port_SubjectID_1_0, uavcan_node_port_ServiceID_1_0>>)

-----------------------------------------------------------------------------

\* unique_id_hash, allocated_node_id
uavcan_pnp_NodeIDAllocationData_1_0 ==
  Struct("uavcan.pnp.NodeIDAllocationData", <<1, 0>>, 9, 9,
    <<Truncated(48), UpTo(1, uavcan_node_ID_1_0)>>)

\* node_id, unique_id
uavcan_pnp_NodeIDAllocationData_2_0 ==
  Struct("uavcan.pnp.NodeIDAllocationData", <<2, 0>>, 48, 18,
    <<uavcan_node_ID_1_0, Fixed(16, UInt(8))>>)

\* term, success
uavcan_pnp_cluster_AppendEntries_Response_1_0 ==
  Struct("uavcan.pnp.cluster.AppendEntries.Response", <<1, 0>>, 48, 5,
    <<UInt(32), Bool>>)

\* configured_cluster_size, void, known_nodes
uavcan_pnp_cluster_Discovery_1_0 ==
  Struct("uavcan.pnp.cluster.Discovery", <<1, 0>>, 96, 12,
    <<UInt(3), Void(5), UpTo(5, uavcan_node_ID_1_0)>>)

\* term, unique_id, node_id
uavcan_pnp_cluster_Entry_1_0 ==
  Struct("uavcan.pnp.cluster.Entry", <<1, 0>>, 22, 22,
    <<UInt(32), Fixed(16, UInt(8)), uavcan_node_ID_1_0>>)

\* term, prev_log_term, prev_log_index, leader_commit, entries
uavcan_pnp_cluster_AppendEntries_Request_1_0 ==
  Struct("uavcan.pnp.cluster.AppendEntries.Request", <<1, 0>>, 96, 35,
    <<UInt(32), UInt(32), UInt(16), UInt(16),
      UpTo(1, uavcan_pnp_cluster_Entry_1_0)>>)

\* term, last_log_term, last_log_index
uavcan_pnp_cluster_RequestVote_Request_1_0 ==
  Struct("uavcan.pnp.cluster.RequestVote.Request", <<1, 0>>, 48, 10,
    <<UInt(32), UInt(32), UInt(16)>>)

\* term, vote_granted
uavcan_pnp_cluster_RequestVote_Response_1_0 ==
  Struct("uavcan.pnp.cluster.RequestVote.Response", <<1, 0>>, 48, 5,
    <<UInt(32), Bool>>)

-----------------------------------------------------------------------------

uavcan_primitive_Empty_1_0 ==
  Struct("uavcan.primitive.Empty", <<1, 0>>, 0, 0, <<>>)

\* value
uavcan_primitive_String_1_0 ==
  Struct("uavcan.primitive.String", <<1, 0>>, 258, 258, <<UpTo(256, UInt(8))>>)

\* value
uavcan_primitive_Unstructured_1_0 ==
  Struct("uavcan.primitive.Unstructured", <<1, 0>>, 258, 258,
    <<UpTo(256, UInt(8))>>)

\* value
uavcan_primitive_array_Bit_1_0 ==
  Struct("uavcan.primitive.array.Bit", <<1, 0>>, 258, 258,
    <<UpTo(2048, Bool)>>)

\* value
uavcan_primitive_array_Integer16_1_0 ==
  Struct("uavcan.primitive.array.Integer16", <<1, 0>>, 257, 257,
    <<UpTo(128, Signed(16))>>)

\* value
uavcan_primitive_array_Integer32_1_0 ==
  Struct("uavcan.primitive.array.Integer32", <<1, 0>>, 257, 257,
    <<UpTo(64, Signed(32))>>)

\* value
uavcan_primitive_array_Integer64_1_0 ==
  Struct("uavcan.primitive.array.Integer64", <<1, 0>>, 257, 257,
    <<UpTo(32, Signed(64))>>)

\* value
uavcan_primitive_array_Integer8_1_0 ==
  Struct("uavcan.primitive.array.Integer8", <<1, 0>>, 258, 258,
    <<UpTo(256, Signed(8))>>)

\* value
uavcan_primitive_array_Natural16_1_0 ==
  Struct("uavcan.primitive.array.Natural16", <<1, 0>>, 257, 257,
    <<UpTo(128, UInt(16))>>)

\* value
uavcan_primitive_array_Natural32_1_0 ==
  Struct("uavcan.primitive.array.Natural32", <<1, 0>>, 257, 257,
    <<UpTo(64, UInt(32))>>)

\* value
uavcan_primitive_array_Natural64_1_0 ==
  Struct("uavcan.primitive.array.Natural64", <<1, 0>>, 257, 257,
    <<UpTo(32, UInt(64))>>)

\* value
uavcan_primitive_array_Natural8_1_0 ==
  Struct("uavcan.primitive.array.Natural8", <<1, 0>>, 258, 258,
    <<UpTo(256, UInt(8))>>)

\* value
uavcan_primitive_array_Real16_1_0 ==
  Struct("uavcan.primitive.array.Real16", <<1, 0>>, 257, 257,
    <<UpTo(128, Float(16))>>)

\* value
uavcan_primitive_array_Real32_1_0 ==
  Struct("uavcan.primitive.array.Real32", <<1, 0>>, 257, 257,
    <<UpTo(64, Float(32))>>)

\* value
uavcan_primitive_array_Real64_1_0 ==
  Struct("uavcan.primitive.array.Real64", <<1, 0>>, 257, 257,
    <<UpTo(32, Float(64))>>)

\* value
uavcan_primitive_scalar_Bit_1_0 ==
  Struct("uavcan.primitive.scalar.Bit", <<1, 0>>, 1, 1, <<Bool>>)

\* value
uavcan_primitive_scalar_Integer16_1_0 ==
  Struct("uavcan.primitive.scalar.Integer16", <<1, 0>>, 2, 2, <<Signed(16)>>)

\* value
uavcan_primitive_scalar_Integer32_1_0 ==
  Struct("uavcan.primitive.scalar.Integer32", <<1, 0>>, 4, 4, <<Signed(32)>>)

\* value
uavcan_primitive_scalar_Integer64_1_0 ==
  Struct("uavcan.primitive.scalar.Integer64", <<1, 0>>, 8, 8, <<Signed(64)>>)

\* value
uavcan_primitive_scalar_Integer8_1_0 ==
  Struct("uavcan.primitive.scalar.Integer8", <<1, 0>>, 1, 1, <<Signed(8)>>)

\* value
uavcan_primitive_scalar_Natural16_1_0 ==
  Struct("uavcan.primitive.scalar.Natural16", <<1, 0>>, 2, 2, <<UInt(16)>>)

\* value
uavcan_primitive_scalar_Natural32_1_0 ==
  Struct("uavcan.primitive.scalar.Natural32", <<1, 0>>, 4, 4, <<UInt(32)>>)

\* value
uavcan_primitive_scalar_Natural64_1_0 ==
  Struct("uavcan.primitive.scalar.Natural64", <<1, 0>>, 8, 8, <<UInt(64)>>)

\* value
uavcan_primitive_scalar_Natural8_1_0 ==
  Struct("uavcan.primitive.scalar.Natural8", <<1, 0>>, 1, 1, <<UInt(8)>>)

\* value
uavcan_primitive_scalar_Real16_1_0 ==
  Struct("uavcan.primitive.scalar.Real16", <<1, 0>>, 2, 2, <<Float(16)>>)

\* value
uavcan_primitive_scalar_Real32_1_0 ==
  Struct("uavcan.primitive.scalar.Real32", <<1, 0>>, 4, 4, <<Float(32)>>)

\* value
uavcan_primitive_scalar_Real64_1_0 ==
  Struct("uavcan.primitive.scalar.Real64", <<1, 0>>, 8, 8, <<Float(64)>>)

-----------------------------------------------------------------------------

\* empty, string, unstructured, bit, integer64, integer32, integer16,
\*   integer8, natural64, natural32, natural16, natural8, real64,
\*   real32, real16
uavcan_register_Value_1_0 ==
  Union("uavcan.register.Value", <<1, 0>>, 259, 259,
    <<uavcan_primitive_Empty_1_0, uavcan_primitive_String_1_0,
      uavcan_primitive_Unstructured_1_0, uavcan_primitive_array_Bit_1_0,
      uavcan_primitive_array_Integer64_1_0,
      uavcan_primitive_array_Integer32_1_0,
      uavcan_primitive_array_Integer16_1_0,
      uavcan_primitive_array_Integer8_1_0,
      uavcan_primitive_array_Natural64_1_0,
      uavcan_primitive_array_Natural32_1_0,
      uavcan_primitive_array_Natural16_1_0,
      uavcan_primitive_array_Natural8_1_0,
      uavcan_primitive_array_Real64_1_0, uavcan_primitive_array_Real32_1_0,
      uavcan_primitive_array_Real16_1_0>>)

\* name, value
uavcan_register_Access_Request_1_0 ==
  Struct("uavcan.register.Access.Request", <<1, 0>>, 515, 515,
    <<uavcan_register_Name_1_0, uavcan_register_Value_1_0>>)

-----------------------------------------------------------------------------

\* error, data
uavcan_file_Read_Response_1_1 ==
  Struct("uavcan.file.Read.Response", <<1, 1>>, 300, 260,
    <<uavcan_file_Error_1_0, uavcan_primitive_Unstructured_1_0>>)

\* offset, path, data
uavcan_file_Write_Request_1_1 ==
  Struct("uavcan.file.Write.Request", <<1, 1>>, 600, 519,
    <<Truncated(40), uavcan_file_Path_2_0,
      uavcan_primitive_Unstructured_1_0>>)

-----------------------------------------------------------------------------

\* mask, sparse_list, total
uavcan_node_port_SubjectIDList_0_1 ==
  Union("uavcan.node.port.SubjectIDList", <<0, 1>>, 4097, 1025,
    <<Fixed(8192, Bool), UpTo(255, uavcan_node_port_SubjectID_1_0),
      uavcan_primitive_Empty_1_0>>)

\* publishers, subscribers, clients, servers
uavcan_node_port_List_0_1 ==
  Struct("uavcan.node.port.List", <<0, 1>>, 8466, 8466,
    <<Delimited(uavcan_node_port_SubjectIDList_0_1),
      Delimited(uavcan_node_port_SubjectIDList_0_1),
      Delimited(uavcan_node_port_ServiceIDList_0_1),
      Delimited(uavcan_node_port_ServiceIDList_0_1)>>)

-----------------------------------------------------------------------------

uavcan_time_GetSynchronizationMasterInfo_Request_0_1 ==
  Struct("uavcan.time.GetSynchronizationMasterInfo.Request", <<0, 1>>, 48, 0,
    <<>>)

\* previous_transmission_timestamp_microsecond
uavcan_time_Synchronization_1_0 ==
  Struct("uavcan.time.Synchronization", <<1, 0>>, 7, 7, <<Truncated(56)>>)

\* microsecond
uavcan_time_SynchronizedTimestamp_1_0 ==
  Struct("uavcan.time.SynchronizedTimestamp", <<1, 0>>, 7, 7,
    <<Truncated(56)>>)

\* difference_tai_minus_utc
uavcan_time_TAIInfo_0_1 ==
  Struct("uavcan.time.TAIInfo", <<0, 1>>, 2, 2, <<UInt(10)>>)

\* value
uavcan_time_TimeSystem_0_1 ==
  Struct("uavcan.time.TimeSystem", <<0, 1>>, 1, 1, <<Truncated(4)>>)

\* error_variance, time_system, tai_info
uavcan_time_GetSynchronizationMasterInfo_Response_0_1 ==
  Struct("uavcan.time.GetSynchronizationMasterInfo.Response", <<0, 1>>, 192, 7,
    <<Float(32), uavcan_time_TimeSystem_0_1, uavcan_time_TAIInfo_0_1>>)

-----------------------------------------------------------------------------

\* timestamp, mutable, persistent, void, value
uavcan_register_Access_Response_1_0 ==
  Struct("uavcan.register.Access.Response", <<1, 0>>, 267, 267,
    <<uavcan_time_SynchronizedTimestamp_1_0, Bool, Bool, Void(6),
      uavcan_register_Value_1_0>>)

-----------------------------------------------------------------------------

\* timestamp, severity, text
uavcan_diagnostic_Record_1_0 ==
  Struct("uavcan.diagnostic.Record", <<1, 0>>, 300, 121,
    <<uavcan_time_SynchronizedTimestamp_1_0, uavcan_diagnostic_Severity_1_0,
      UpTo(112, UInt(8))>>)

\* timestamp, severity, text
uavcan_diagnostic_Record_1_1 ==
  Struct("uavcan.diagnostic.Record", <<1, 1>>, 300, 264,
    <<uavcan_time_SynchronizedTimestamp_1_0, uavcan_diagnostic_Severity_1_0,
      UpTo(255, UInt(8))>>)

-----------------------------------------------------------------------------

\* timestamp, manifestation
uavcan_metatransport_can_Frame_0_1 ==
  Struct("uavcan.metatransport.can.Frame", <<0, 1>>, 78, 78,
    <<uavcan_time_SynchronizedTimestamp_1_0,
      uavcan_metatransport_can_Manifestation_0_1>>)

\* timestamp, data
uavcan_metatransport_serial_Fragment_0_1 ==
  Struct("uavcan.metatransport.serial.Fragment", <<0, 1>>, 265, 265,
    <<uavcan_time_SynchronizedTimestamp_1_0, UpTo(256, UInt(8))>>)

\* timestamp, void, source, destination, data
uavcan_metatransport_udp_Frame_0_1 ==
  Struct("uavcan.metatransport.udp.Frame", <<0, 1>>, 10240, 9262,
    <<uavcan_time_SynchronizedTimestamp_1_0, Void(8),
      uavcan_metatransport_udp_Endpoint_0_1,
      uavcan_metatransport_udp_Endpoint_0_1, UpTo(9188, UInt(8))>>)

-----------------------------------------------------------------------------
(* all of them *)
DsdlUavcanTypes ==
  <<uavcan_register_List_Request_1_0, uavcan_register_Name_1_0,
    uavcan_register_List_Response_1_0, uavcan_diagnostic_Severity_1_0,
    uavcan_file_Error_1_0, uavcan_file_GetInfo_Response_0_1,
    uavcan_file_GetInfo_Response_0_2, uavcan_file_Modify_Response_1_0,
    uavcan_file_Modify_Response_1_1, uavcan_file_Path_1_0,
    uavcan_file_GetInfo_Request_0_1, uavcan_file_List_Request_0_1,
    uavcan_file_List_Response_0_1, uavcan_file_Modify_Request_1_0,
    uavcan_file_Path_2_0, uavcan_file_GetInfo_Request_0_2,
    uavcan_file_List_Request_0_2, uavcan_file_List_Response_0_2,
    uavcan_file_Modify_Request_1_1, uavcan_file_Read_Request_1_0,
    uavcan_file_Read_Response_1_0, uavcan_file_Read_Request_1_1,
    uavcan_file_Write_Request_1_0, uavcan_file_Write_Response_1_0,
    uavcan_file_Write_Response_1_1,
    uavcan_internet_udp_HandleIncomingPacket_Request_0_1,
    uavcan_internet_udp_HandleIncomingPacket_Response_0_1,
    uavcan_internet_udp_HandleIncomingPacket_Request_0_2,
    uavcan_internet_udp_HandleIncomingPacket_Response_0_2,
    uavcan_internet_udp_OutgoingPacket_0_1,
    uavcan_internet_udp_OutgoingPacket_0_2,
    uavcan_metatransport_can_BaseArbitrationID_0_1,
    uavcan_metatransport_can_Error_0_1,
    uavcan_metatransport_can_ExtendedArbitrationID_0_1,
    uavcan_metatransport_can_ArbitrationID_0_1,
    uavcan_metatransport_can_DataClassic_0_1,
    uavcan_metatransport_can_DataFD_0_1, uavcan_metatransport_can_RTR_0_1,
    uavcan_metatransport_can_Frame_0_2,
    uavcan_metatransport_can_Manifestation_0_1,
    uavcan_metatransport_ethernet_EtherType_0_1,
    uavcan_metatransport_ethernet_Frame_0_1,
    uavcan_metatransport_serial_Fragment_0_2,
    uavcan_metatransport_udp_Endpoint_0_1,
    uavcan_node_ExecuteCommand_Request_1_0,
    uavcan_node_ExecuteCommand_Response_1_0,
    uavcan_node_ExecuteCommand_Request_1_1,
    uavcan_node_ExecuteCommand_Response_1_1, uavcan_node_GetInfo_Request_1_0,
    uavcan_node_GetTransportStatistics_Request_0_1, uavcan_node_Health_1_0,
    uavcan_node_ID_1_0, uavcan_node_IOStatistics_0_1,
    uavcan_node_GetTransportStatistics_Response_0_1, uavcan_node_Mode_1_0,
    uavcan_node_Heartbeat_1_0, uavcan_node_Version_1_0,
    uavcan_node_GetInfo_Response_1_0, uavcan_node_port_ServiceIDList_0_1,
    uavcan_node_port_ServiceID_1_0, uavcan_node_port_SubjectID_1_0,
    uavcan_node_port_ID_1_0, uavcan_pnp_NodeIDAllocationData_1_0,
    uavcan_pnp_NodeIDAllocationData_2_0,
    uavcan_pnp_cluster_AppendEntries_Response_1_0,
    uavcan_pnp_cluster_Discovery_1_0, uavcan_pnp_cluster_Entry_1_0,
    uavcan_pnp_cluster_AppendEntries_Request_1_0,
    uavcan_pnp_cluster_RequestVote_Request_1_0,
    uavcan_pnp_cluster_RequestVote_Response_1_0, uavcan_primitive_Empty_1_0,
    uavcan_primitive_String_1_0, uavcan_primitive_Unstructured_1_0,
    uavcan_primitive_array_Bit_1_0, uavcan_primitive_array_Integer16_1_0,
    uavcan_primitive_array_Integer32_1_0,
    uavcan_primitive_array_Integer64_1_0,
    uavcan_primitive_array_Integer8_1_0,
    uavcan_primitive_array_Natural16_1_0,
    uavcan_primitive_array_Natural32_1_0,
    uavcan_primitive_array_Natural64_1_0,
    uavcan_primitive_array_Natural8_1_0, uavcan_primitive_array_Real16_1_0,
    uavcan_primitive_array_Real32_1_0, uavcan_primitive_array_Real64_1_0,
    uavcan_primitive_scalar_Bit_1_0, uavcan_primitive_scalar_Integer16_1_0,
    uavcan_primitive_scalar_Integer32_1_0,
    uavcan_primitive_scalar_Integer64_1_0,
    uavcan_primitive_scalar_Integer8_1_0,
    uavcan_primitive_scalar_Natural16_1_0,
    uavcan_primitive_scalar_Natural32_1_0,
    uavcan_primitive_scalar_Natural64_1_0,
    uavcan_primitive_scalar_Natural8_1_0, uavcan_primitive_scalar_Real16_1_0,
    uavcan_primitive_scalar_Real32_1_0, uavcan_primitive_scalar_Real64_1_0,
    uavcan_register_Value_1_0, uavcan_register_Access_Request_1_0,
    uavcan_file_Read_Response_1_1, uavcan_file_Write_Request_1_1,
    uavcan_node_port_SubjectIDList_0_1, uavcan_node_port_List_0_1,
    uavcan_time_GetSynchronizationMasterInfo_Request_0_1,
    uavcan_time_Synchronization_1_0, uavcan_time_SynchronizedTimestamp_1_0,
    uavcan_time_TAIInfo_0_1, uavcan_time_TimeSystem_0_1,
    uavcan_time_GetSynchronizationMasterInfo_Response_0_1,
    uavcan_register_Access_Response_1_0, uavcan_diagnostic_Record_1_0,
    uavcan_diagnostic_Record_1_1, uavcan_metatransport_can_Frame_0_1,
    uavcan_metatransport_serial_Fragment_0_1,
    uavcan_metatransport_udp_Frame_0_1>>

=============================================================================
